---- MODULE Spec2Model ----
(***************************************************************************)
(* Model of the data synchronisation core of the Coordinator dashboard:    *)
(* StorageService (the facade over Firebase and localStorage),             *)
(* FirebaseService (the remote store adapter and connection monitor) and   *)
(* the subscription part of LunchRequestService.                           *)
(***************************************************************************)
EXTENDS Integers, Sequences, FiniteSets, TLC

(* ------------------------------ bounds --------------------------------- *)
MaxCalls == 2      \* facade calls started in one behaviour
MaxSubs == 2       \* subscriptions created in one behaviour
MaxClock == 1      \* largest value of Date.now() (logical milliseconds)
MaxLen == 2        \* longest list handed to a setter
MaxExternal == 1   \* writes made by other clients of the remote store
NumDays == 2       \* day tokens in use
MaxCallbacks == 2  \* callbacks handed to onConnectionChange
MaxNotify == 2     \* notifications of one connection callback in one behaviour
MaxHours == 12     \* hours in which snapshots of a day are taken

(* ------------------------------ values --------------------------------- *)
AllDays == <<"monday", "tuesday", "wednesday">>
Days == {AllDays[i] : i \in 1..NumDays}

NameOrder == <<"A", "B">>          \* record names, in the key order of the remote store
Names == {NameOrder[i] : i \in 1..Len(NameOrder)}
\* the lists handed to the setters: the prefixes of one list that is not in key order
\* and repeats a name
FullList == <<[name |-> "B", v |-> 1], [name |-> "A", v |-> 1],
              [name |-> "B", v |-> 2], [name |-> "A", v |-> 2]>>
InputLists == {SubSeq(FullList, 1, n) : n \in 0..MaxLen}

RosterDates == {"25/12/2024"}
Themes == {"dark", "light"}
defaultHighlightSettings == [highlightEarlies |-> TRUE, highlight1730s |-> TRUE,
                             highlight1830s |-> TRUE, highlightLates |-> TRUE]
HighlightValues == {defaultHighlightSettings,
                    [defaultHighlightSettings EXCEPT !.highlightLates = FALSE]}

None == <<>>                       \* null / undefined / missing key
Some(v) == <<v>>
EmptyObj == [k \in {} |-> None]    \* {} ; also what the remote store holds at an empty path

CollectionKeys == {"theatresByDay", "practitionersByDay"}
FlatPaths == {"theatres", "practitioners"}     \* the remote paths of the flat collections
ByDayKeys == CollectionKeys \cup {"rosterDatesByDay"}
SettingKeys == {"theme", "highlightSettings", "selectedDay"}
RemoteFirstSettings == {"theme", "highlightSettings"}

SetterInputs(key) ==
  IF key \in CollectionKeys THEN InputLists
  ELSE IF key = "rosterDatesByDay" THEN {None} \cup {Some(r) : r \in RosterDates}
  ELSE IF key = "theme" THEN Themes
  ELSE IF key = "selectedDay" THEN Days
  ELSE HighlightValues

VARIABLES
  USE_FIREBASE,    \* the static configuration flag of storageService.js
  mode,            \* StorageService.mode
  isConnected,     \* FirebaseService.isConnected
  database,        \* remote store, coordinator/<key>/<day>
  dbSettings,      \* remote store, coordinator/settings/<key>
  dbLunch,         \* remote store, coordinator/lunchRequests (the requests, oldest first)
  dbFlat,          \* remote store, coordinator/theatres and coordinator/practitioners
  localStorage,    \* the browser's localStorage, key -> None | Some(value)
  calls,           \* facade calls waiting for the remote store, in the order they were made
  last,            \* the facade call that settled last: what was asked and what came of it
  started,         \* history: number of facade calls made
  target,          \* the storage key (remote path) that the callers of this behaviour work on
  clock,           \* Date.now()
  listeners,       \* FirebaseService.listeners : key -> subscription
  lunchListeners,  \* LunchRequestService.listeners : listenerId -> subscription
  attached,        \* callbacks the database SDK holds attached (subscription ids)
  events,          \* subscriptions with a value event not yet delivered
  subs,            \* subscriptions created so far (callback, path, history)
  externals,       \* history: number of writes made by other clients
  offlineWrites,   \* history: per (key, day), the value last set while the monitor reported
                   \* Unreachable, since it last went Unreachable
  polls,           \* history: parity of the number of firings of the periodic mode check
  connectionCallbacks, \* FirebaseService.connectionCallbacks, in insertion order
  cbCalls,         \* history: per connection callback, its invocations by connectivity pushes
  greeted,         \* history: connection callbacks invoked at once by onConnectionChange
  hook,            \* a mounted state container (React hook) built on the facade
  saved,           \* history: per cache key, the data of the last save that was stored
  dbSnapshots,     \* remote store, coordinator/snapshots/<day> : hour key -> snapshot
  running          \* the calls of SnapshotService and useLunchRequests that are under way

vars == <<USE_FIREBASE, mode, isConnected, database, dbSettings, dbLunch, dbFlat, localStorage,
          calls, last, started, target, clock, listeners, lunchListeners, attached, events, subs,
          externals, offlineWrites, polls, connectionCallbacks, cbCalls, greeted,
          hook, saved, dbSnapshots, running>>

callVars == <<calls, last, started, target>>

remoteVars == <<database, dbSettings, dbLunch, dbFlat, dbSnapshots>>
connVars == <<connectionCallbacks, cbCalls, greeted>>
monitorVars == <<USE_FIREBASE, saved, running, mode, isConnected, polls, connVars>>
subVars == <<listeners, lunchListeners, attached, subs>>

(* ------------------------- dataTransformers.js ------------------------- *)
Stamp(item, now) ==
  [f \in DOMAIN item \cup {"lastUpdated"} |-> IF f = "lastUpdated" THEN now ELSE item[f]]

\* variant: the entry is handed on as it is
StripNothing(entry) == entry

Strip(entry) == [f \in DOMAIN entry \ {"lastUpdated"} |-> entry[f]]

arrayToFirebaseObject(array, now) ==
  LET keys == {array[i].name : i \in 1..Len(array)} \ {""}
      lastAt(k) == CHOOSE i \in 1..Len(array) :
                   /\ array[i].name = k
                   /\ \A j \in 1..Len(array) : array[j].name = k => j <= i
  IN [k \in keys |-> Stamp(array[lastAt(k)], now)]

\* variant: the keys of the object instead of its values
firebaseObjectToArrayKeys(firebaseObject) ==
  LET ks == SelectSeq(NameOrder, LAMBDA k : k \in DOMAIN firebaseObject)
  IN [i \in 1..Len(ks) |-> [name |-> ks[i]]]

firebaseObjectToArray(firebaseObject) ==
  LET ks == SelectSeq(NameOrder, LAMBDA k : k \in DOMAIN firebaseObject)
  IN [i \in 1..Len(ks) |-> Strip(firebaseObject[ks[i]])]

(* ----------------------- localStorage helpers -------------------------- *)
saveToLocalStorage(ls, key, data) == [ls EXCEPT ![key] = Some(data)]

loadFromLocalStorage(ls, key, defaultValue) ==
  IF ls[key] = None THEN defaultValue ELSE ls[key][1]

ObjSet(obj, k, v) == [e \in DOMAIN obj \cup {k} |-> IF e = k THEN v ELSE obj[e]]

\* variant: the blob is rebuilt from the written day alone
MirrorDayAlone(ls, key, day, value) ==
  saveToLocalStorage(ls, key, ObjSet(EmptyObj, day, value))

\* const data = load(key, {}); data[day] = value; save(key, data)
MirrorDay(ls, key, day, value) ==
  saveToLocalStorage(ls, key, ObjSet(loadFromLocalStorage(ls, key, EmptyObj), day, value))

\* load(key, {})[day] || []      (|| null for the roster date)
LocalForDay(ls, key, day) ==
  LET data == loadFromLocalStorage(ls, key, EmptyObj)
  IN IF day \in DOMAIN data THEN data[day] ELSE None

(* ---------------------------- FirebaseService -------------------------- *)
getConnectionStatus == isConnected

Callbacks == 1..MaxCallbacks
\* the callbacks that throw when they are invoked
ThrowingCallbacks == {1}

Registered(cbs) == {cbs[i] : i \in 1..Len(cbs)}

\* variant: every push of true notifies
ShouldNotifyWhenConnected(wasConnected, nowConnected) == nowConnected

\* if (!wasConnected && this.isConnected)
ShouldNotify(wasConnected, nowConnected) == ~wasConnected /\ nowConnected

\* try { callback(true) } catch (error) { console.error(...) }
ErrorCaught == TRUE

\* this.connectionCallbacks.forEach(callback => ...) : the invocation counts afterwards
RECURSIVE forEachCallback(_, _)
forEachCallback(cbs, counts) ==
  IF cbs = <<>> THEN counts
  ELSE LET c == Head(cbs)
           n == [counts EXCEPT ![c] = @ + 1]
       IN IF c \in ThrowingCallbacks /\ ~ErrorCaught THEN n
          ELSE forEachCallback(Tail(cbs), n)

\* what FirebaseService.get<X>ForDay returns for the content of the path
RemoteForDay(key, day) ==
  IF key \in CollectionKeys THEN firebaseObjectToArray(database[key][day])
  ELSE database[key][day]

\* what FirebaseService.set<X>ForDay stores at the path
RemoteValue(key, value, now) ==
  IF key \in CollectionKeys THEN arrayToFirebaseObject(value, now) ELSE value

\* snapshot.val() || 'dark' , || {highlightEarlies: true, ...} , || null
RemoteSetting(key) ==
  IF dbSettings[key] # None THEN dbSettings[key]
  ELSE IF key = "theme" THEN Some("dark")
  ELSE IF key = "highlightSettings" THEN Some(defaultHighlightSettings)
  ELSE None

(* ---------------------------- StorageService --------------------------- *)
\* variant: the interval is installed whatever the flag
PollInstalledAlways == TRUE

\* if (USE_FIREBASE) this.initializeConnectionMonitoring()
PollInstalled == USE_FIREBASE

\* variant: the check only ever falls back
NextModeNoReturn(m, connected) == IF ~connected THEN "localStorage" ELSE m

\* the body of the setInterval callback
NextMode(m, connected) ==
  IF m = "firebase" /\ ~connected THEN "localStorage"
  ELSE IF m = "localStorage" /\ connected THEN "firebase"
  ELSE m

\* variant: the connection status is not consulted
\* variant: the connection status alone decides
isFirebaseAvailableStatusOnly == getConnectionStatus

isFirebaseAvailableModeOnly == mode = "firebase"

isFirebaseAvailable == mode = "firebase" /\ getConnectionStatus

\* a facade call: what was asked, and once it has settled what came of it
\*   conn: what the connection monitor reported when the call was made
\*   at  : Date.now() when the call was made
\*   st  : pending, resolved or rejected
\*   rem : the Remote Store call of this facade call (none, pending, ok, failed)
\*   n   : history, the rank of the call among the calls made
NewCall(op, key, day, arg) ==
  [op |-> op, key |-> key, day |-> day, arg |-> arg, at |-> clock, conn |-> isConnected,
   st |-> "pending", rem |-> "pending", ret |-> None, n |-> started + 1]

NoCall == [op |-> "none", key |-> "-", day |-> "-", arg |-> None, at |-> 0, conn |-> FALSE,
           st |-> "none", rem |-> "none", ret |-> None, n |-> 0]

Settled(c, st, rem, ret) == [c EXCEPT !.st = st, !.rem = rem, !.ret = ret]

RemoveAt(seq, i) == [j \in 1..(Len(seq) - 1) |-> IF j < i THEN seq[j] ELSE seq[j + 1]]

Pending(i, op, keys) ==
  /\ i \in 1..Len(calls)
  /\ calls[i].op = op
  /\ calls[i].key \in keys

\* a call is made: it takes the remote path and waits, or settles at once from the cache
Start(c, firebaseAvailable, ret) ==
  /\ started < MaxCalls
  /\ c.key = target
  /\ target' = target
  /\ started' = started + 1
  /\ IF firebaseAvailable
     THEN calls' = Append(calls, c) /\ last' = last
     ELSE calls' = calls /\ last' = Settled(c, "resolved", "none", ret)

\* the remote call of the waiting call i comes back and the call settles
Settle(i, st, rem, ret) ==
  /\ last' = Settled(calls[i], st, rem, ret)
  /\ calls' = RemoveAt(calls, i)
  /\ started' = started
  /\ target' = target

\* no earlier write to the same path is still on its way to the remote store
FirstInLine(i) ==
  \A j \in 1..(i - 1) :
    ~(calls[j].op = "set"
      /\ calls[j].key = calls[i].key /\ calls[j].day = calls[i].day)

\* ---- get<X>ForDay ----
\* variant: an empty result is not mirrored (if (firebaseData.length))
GetOkCacheNonEmpty(ls, key, day, data) ==
  IF data = None THEN ls ELSE MirrorDay(ls, key, day, data)

\* variant: a day the cache already holds keeps its cached value
GetOkCacheKeepsLocal(ls, key, day, data) ==
  IF LocalForDay(ls, key, day) # None THEN ls ELSE MirrorDay(ls, key, day, data)

\* a successful fetch: the value is mirrored into the cache and returned
GetOkCache(ls, key, day, data) == MirrorDay(ls, key, day, data)

\* variant: the read error is thrown to the caller
GetFailOutcomeThrows(ls, key, day) == [st |-> "rejected", ret |-> None]

\* catch (error) { console.error(...) } and fall through to the localStorage read
GetFailOutcome(ls, key, day) == [st |-> "resolved", ret |-> Some(LocalForDay(ls, key, day))]

\* ---- set<X>ForDay, setTheme, setHighlightSettings ----
Mirror(ls, key, day, value) ==
  IF key \in ByDayKeys THEN MirrorDay(ls, key, day, value)
  ELSE saveToLocalStorage(ls, key, value)

\* variant: the cache is written first, whatever the path
SetStartCacheFirst(ls, key, day, value, firebaseAvailable) == Mirror(ls, key, day, value)

\* the cache before the remote write is acknowledged: written only on the offline path
SetStartCache(ls, key, day, value, firebaseAvailable) ==
  IF firebaseAvailable THEN ls ELSE Mirror(ls, key, day, value)

\* variant: the value is cached although the remote write failed
SetFailCacheMirrors(ls, key, day, value) == Mirror(ls, key, day, value)

\* catch (error) { console.error(...); throw error } : the cache is left alone
SetFailCache(ls, key, day, value) == ls

SetFailOutcome == "rejected"

\* ---- migrateToWeeklyStructure ----
LegacyKeys == {"theatreData", "practitionerListData"}
BackupKeys == {"theatreData_legacy", "practitionerListData_legacy"}

\* a value read with loadFromLocalStorage(key, null) in a condition: arrays and
\* objects are truthy, null (a missing key) is not
Truthy(loaded) == loaded # None

\* variant: the new structure is not looked at
ShouldMigrateOldOnly(oldTheatres, oldPractitioners, newExists) ==
  Truthy(oldTheatres) \/ Truthy(oldPractitioners)

\* if ((oldTheatres || oldPractitioners) && !newExists)
ShouldMigrate(oldTheatres, oldPractitioners, newExists) ==
  (Truthy(oldTheatres) \/ Truthy(oldPractitioners)) /\ ~Truthy(newExists)

\* variant: the legacy list is put under every day
WeekOfEveryDay(old, today) == [day \in Days |-> IF Truthy(old) THEN old[1] ELSE <<>>]

\* day === today && old ? old : []
WeekOf(old, today) == [day \in Days |-> IF day = today /\ Truthy(old) THEN old[1] ELSE <<>>]

\* if (old) this.saveToLocalStorage(key, old)
Backup(ls, key, old) == IF Truthy(old) THEN saveToLocalStorage(ls, key, old[1]) ELSE ls

\* the cache after a run of migrateToWeeklyStructure on the day today
migrateToWeeklyStructure(ls, today) ==
  LET oldTheatres == ls["theatreData"]
      oldPractitioners == ls["practitionerListData"]
      newExists == ls["theatresByDay"]
      ls1 == saveToLocalStorage(ls, "theatresByDay", WeekOf(oldTheatres, today))
      ls2 == saveToLocalStorage(ls1, "practitionersByDay", WeekOf(oldPractitioners, today))
      ls3 == saveToLocalStorage(ls2, "selectedDay", today)
      ls4 == Backup(ls3, "theatreData_legacy", oldTheatres)
  IN IF ShouldMigrate(oldTheatres, oldPractitioners, newExists)
     THEN Backup(ls4, "practitionerListData_legacy", oldPractitioners)
     ELSE ls

\* ---- importAllData ----
\* an import document: each field is missing (None) or present
ImportList == SubSeq(FullList, 1, 2)
ImportWeek == [day \in Days |-> IF day = AllDays[1] THEN ImportList ELSE <<>>]
NoDoc == [theatresByDay |-> None, practitionersByDay |-> None, rosterDatesByDay |-> None,
          selectedDay |-> None, theatres |-> None, practitionerList |-> None,
          theme |-> None, highlightSettings |-> None]
DayDoc == [NoDoc EXCEPT !.theatresByDay = Some(ImportWeek),
                        !.practitionersByDay = Some(ImportWeek),
                        !.selectedDay = Some(AllDays[2])]
LegacyDoc == [NoDoc EXCEPT !.theatres = Some(ImportList), !.practitionerList = Some(ImportList)]
ImportDocs ==
  {DayDoc, LegacyDoc, [LegacyDoc EXCEPT !.theme = Some("light")],
   [NoDoc EXCEPT !.theatres = Some(ImportList), !.theme = Some("light")],
   [NoDoc EXCEPT !.practitionersByDay = Some(ImportWeek)],
   [NoDoc EXCEPT !.highlightSettings = Some(defaultHighlightSettings)]}

\* if (data.theatresByDay && data.practitionersByDay)
IsDayShape(data) == Truthy(data.theatresByDay) /\ Truthy(data.practitionersByDay)
\* else if (data.theatres && data.practitionerList)
IsLegacyShape(data) == Truthy(data.theatres) /\ Truthy(data.practitionerList)

\* if (value) this.saveToLocalStorage(key, value)
SaveIfPresent(ls, key, value) == IF Truthy(value) THEN saveToLocalStorage(ls, key, value[1]) ELSE ls

\* day === today ? list : []
TodayOnly(list, today) == [day \in Days |-> IF day = today THEN list ELSE <<>>]

\* the localStorage writes of importAllData, made before the remote store is tried
ImportCache(ls, data, today) ==
  LET byShape ==
        IF IsDayShape(data)
        THEN SaveIfPresent(
               SaveIfPresent(
                 saveToLocalStorage(
                   saveToLocalStorage(ls, "theatresByDay", data.theatresByDay[1]),
                   "practitionersByDay", data.practitionersByDay[1]),
                 "rosterDatesByDay", data.rosterDatesByDay),
               "selectedDay", data.selectedDay)
        ELSE IF IsLegacyShape(data)
        THEN saveToLocalStorage(
               saveToLocalStorage(
                 saveToLocalStorage(ls, "theatresByDay", TodayOnly(data.theatres[1], today)),
                 "practitionersByDay", TodayOnly(data.practitionerList[1], today)),
               "selectedDay", today)
        ELSE ls
  IN SaveIfPresent(SaveIfPresent(byShape, "theme", data.theme),
                   "highlightSettings", data.highlightSettings)

\* FirebaseService.importAllData: the writes it pushes to Promise.all
ImportWrites(data) ==
  {f \in {"theatres", "practitionerList", "theme", "highlightSettings"} : Truthy(data[f])}

\* the remote store after the writes in done were applied
ImportRemote(data, done, now) ==
  [dbFlat |->
     [k \in FlatPaths |->
        IF k = "theatres" /\ "theatres" \in done
        THEN arrayToFirebaseObject(data.theatres[1], now)
        ELSE IF k = "practitioners" /\ "practitionerList" \in done
        THEN arrayToFirebaseObject(data.practitionerList[1], now)
        ELSE dbFlat[k]],
   dbSettings |->
     [k \in SettingKeys |->
        IF k \in done /\ k \in {"theme", "highlightSettings"} THEN data[k] ELSE dbSettings[k]]]

\* catch (error) { console.error('Error importing to Firebase:', error) }
ImportFailOutcome == "resolved"

\* ---- setSelectedDay, setTheatres, setPractitioners ----
CacheFirstKeys == {"selectedDay"} \cup LegacyKeys
FlatPath(key) == IF key = "theatreData" THEN "theatres" ELSE "practitioners"

\* catch (error) { console.error(...) } : the remote write error goes no further
CacheFirstFailOutcome == "resolved"

\* ---- getTheme, getHighlightSettings, getSelectedDay ----
\* the localStorage fallback; getCurrentDayOfWeek() may be any day
LocalSettingValues(ls, key) ==
  IF key = "theme" THEN {loadFromLocalStorage(ls, "theme", "dark")}
  ELSE IF key = "highlightSettings"
       THEN {loadFromLocalStorage(ls, "highlightSettings", defaultHighlightSettings)}
  ELSE IF ls["selectedDay"] # None THEN {ls["selectedDay"][1]} ELSE Days

GetSettingFailOutcome(r) == [st |-> "resolved", ret |-> Some(r)]

(* ------------- localStorage helpers, at the level of the stored text ----- *)
\* JavaScript values handed to the adapter or returned by it
JsUndefined == "<undefined>"
JsNull == "<null>"
JsNaN == "<NaN>"
JsEmptyString == "<''>"
JsString == "<'dark'>"
JsList == "<[{name:'A'}]>"
JsCyclic == "<cyclic object>"
JsValues == {JsUndefined, JsNull, JsNaN, JsEmptyString, JsString, JsList, JsCyclic}
DefaultValues == {JsNull, JsString}

\* texts that other code of the same origin left under a key: not JSON
ForeignTexts == {"", "{oops"}

Return(v) == [threw |-> FALSE, v |-> v]
Throw == [threw |-> TRUE, v |-> JsUndefined]

\* JSON.stringify : a text, undefined for undefined, a TypeError for a cyclic structure
JSON_stringify(data) ==
  CASE data = JsCyclic -> Throw
    [] data = JsUndefined -> Return(JsUndefined)
    [] data \in {JsNull, JsNaN} -> Return("null")
    [] data = JsEmptyString -> Return("\"\"")
    [] data = JsString -> Return("\"dark\"")
    [] data = JsList -> Return("[{\"name\":\"A\"}]")

\* JSON.parse : a SyntaxError for a text that is not JSON
JSON_parse(text) ==
  CASE text = "null" -> Return(JsNull)
    [] text = "\"\"" -> Return(JsEmptyString)
    [] text = "\"dark\"" -> Return(JsString)
    [] text = "[{\"name\":\"A\"}]" -> Return(JsList)
    [] OTHER -> Throw

\* the falsy values among those a text variable can hold
Falsy(x) == x \in {JsUndefined, JsNull, ""}

\* String(value) : what setItem stores for a value that is not a string
StringOf(x) ==
  CASE x = JsNull -> "null"
    [] x = JsUndefined -> "undefined"
    [] OTHER -> x

\* try { return JSON.stringify(data) } catch { return null }
safeStringify(data) ==
  LET r == JSON_stringify(data) IN IF r.threw THEN Return(JsNull) ELSE r

\* try { return jsonString ? JSON.parse(jsonString) : defaultValue } catch { return defaultValue }
safeParse(jsonString, defaultValue) ==
  IF Falsy(jsonString) THEN Return(defaultValue)
  ELSE LET r == JSON_parse(jsonString) IN IF r.threw THEN Return(defaultValue) ELSE r

\* Storage.setItem : a QuotaExceededError leaves the store as it was
setItem(store, key, value, quotaExceeded) ==
  IF quotaExceeded THEN [threw |-> TRUE, store |-> store]
  ELSE [threw |-> FALSE, store |-> [store EXCEPT ![key] = Some(StringOf(value))]]

\* Storage.getItem : null for a missing key; a SecurityError when access is denied
getItem(store, key, denied) ==
  IF denied THEN Throw
  ELSE Return(IF store[key] = None THEN JsNull ELSE store[key][1])

\* variant: the text is stored without the test of jsonString
saveToLocalStorageUnguarded(store, key, data, quotaExceeded) ==
  LET jsonString == safeStringify(data)
      r == setItem(store, key, jsonString.v, quotaExceeded)
  IN [threw |-> FALSE, store |-> r.store]

\* try { jsonString = safeStringify(data); if (jsonString) setItem(key, jsonString) } catch {}
saveToLocalStorageText(store, key, data, quotaExceeded) ==
  LET jsonString == safeStringify(data)
  IN IF jsonString.threw \/ Falsy(jsonString.v) THEN [threw |-> FALSE, store |-> store]
     ELSE LET r == setItem(store, key, jsonString.v, quotaExceeded)
          IN [threw |-> FALSE, store |-> r.store]

\* try { return safeParse(getItem(key), defaultValue) } catch { return defaultValue }
loadFromLocalStorageText(store, key, defaultValue, denied) ==
  LET jsonString == getItem(store, key, denied)
  IN IF jsonString.threw THEN Return(defaultValue)
     ELSE LET r == safeParse(jsonString.v, defaultValue)
          IN IF r.threw THEN Return(defaultValue) ELSE r

\* no save has stored anything yet
NeverSaved == [k \in ByDayKeys \cup SettingKeys |-> "-"]

(* ------------------------------ subscriptions -------------------------- *)
\* a subscription: the callback and the closure of its unsubscribe function
\*   svc  : firebase (FirebaseService), lunch (LunchRequestService), noop (() => {})
\*   lid  : listenerId of LunchRequestService (Date.now())
\*   conn : what the connection monitor reported at subscribe time
\*   unsubs : history, calls of the unsubscribe function (0, 1, 2 = more than once)
\*   delivered : history, the callback has been invoked
NewSub(svc, root, day) ==
  [svc |-> svc, root |-> root, day |-> day, lid |-> IF svc = "lunch" THEN clock ELSE 0,
   conn |-> isConnected, unsubs |-> 0, delivered |-> FALSE]

Remove(f, k) == [e \in DOMAIN f \ {k} |-> f[e]]

Registry == [listeners |-> listeners, lunchListeners |-> lunchListeners, attached |-> attached]

\* variant: the subscription is made only while the remote is available
SubscribeForDayAttachesIfAvailable == isFirebaseAvailable

\* if (USE_FIREBASE) return firebaseService.subscribeTo...ForDay(...); return () => {}
SubscribeForDayAttaches == USE_FIREBASE

\* variant: each call releases the listener attached last to the path
UnsubscribeFnPop(s, reg) ==
  LET u == subs[s]
      here == {t \in reg.attached : subs[t].root = u.root /\ subs[t].day = u.day}
  IN IF u.svc = "firebase" /\ here # {}
     THEN [reg EXCEPT !.attached = @ \ {CHOOSE t \in here : \A t2 \in here : t2 <= t},
                      !.listeners = Remove(@, <<u.root, u.day>>)]
     ELSE reg

\* the unsubscribe function of subscription s, applied to a registry
UnsubscribeFn(s, reg) ==
  LET u == subs[s]
  IN IF u.svc = "firebase"
     THEN \* off(ref); this.listeners.delete(key)
          [reg EXCEPT !.attached = {t \in @ : ~(subs[t].root = u.root /\ subs[t].day = u.day)},
                      !.listeners = Remove(@, <<u.root, u.day>>)]
     ELSE IF u.svc = "lunch"
     THEN \* this.listeners.delete(listenerId)
          [reg EXCEPT !.lunchListeners = Remove(@, u.lid)]
     ELSE reg

\* the value a listener's callback is invoked with
Delivered(s) ==
  IF subs[s].root \in CollectionKeys
  THEN firebaseObjectToArray(database[subs[s].root][subs[s].day])
  ELSE IF subs[s].root = "settings" THEN dbSettings
  ELSE dbLunch

\* the cache when the callback of a subscription is invoked
DeliverCache(ls, root, day, value) == ls

\* the events that a change of a remote path queues for the listeners attached to it
Notify(root, day) ==
  events \cup {s \in attached : subs[s].root = root /\ subs[s].day = day}

(* --------------------------- state containers -------------------------- *)
\* useTheatreData(selectedDay), usePractitionerData(), useRosterDate(selectedDay) with
\* the isStorageUpdate flag, and the useRosterDate(selectedDay) with loadedValueRef
\* and the reload on reconnection
ReloadingHook == "useRosterDate/loadedValueRef"
RosterHooks == {"useRosterDate", ReloadingHook}
HookKinds == {"useTheatreData", "usePractitionerData"} \cup RosterHooks
DayHooks == {"useTheatreData"} \cup RosterHooks
\* the hooks with an isLoading state and a subscription
LoadingHooks == {"useTheatreData", "usePractitionerData"}

\* what a read or a push of the facade can hand to the hook
HookData(kind) == IF kind \in RosterHooks THEN {"null", "d1", "d2"} ELSE {"empty", "list"}

\* a value of the hook's state: its content and the day it was loaded for or edited on
HookValue(data, day) == [data |-> data, day |-> day]

\* useState(initialTheatreData), useState(defaultPractitioners), useState(null)
InitialValue(kind) == HookValue(IF kind \in RosterHooks THEN "null" ELSE "template", "-")

NoWrite == [day |-> "none", value |-> HookValue("-", "-")]

\* the hook after its first render, its effects not yet run
\*   selectedDay, value, isLoading : the props and state of the last render
\*   pDay, pValue, pLoading, pTouched : the updates queued for the next render
\*   isFirebaseUpdate, previousDayRef, loadedValueRef, isInitialMount : the refs
\*   registered : the day of the callback registered with onConnectionChange
\*   reloads : the days of the reads in flight that a connection callback started
\*   e1, e2 : the load effect / the save effect is to run for the last render
\*   loads : the reads in flight, with the `mounted` of their effect run
\*   sub : the day of the subscription whose effect run is still mounted
\*   written, edited, switched : history, the last facade write made, whether the user
\*                               edited, whether a render came with another day
Mounted(kind, day) ==
  [kind |-> kind, selectedDay |-> day, value |-> InitialValue(kind),
   isLoading |-> kind \in LoadingHooks,
   pDay |-> day, pValue |-> InitialValue(kind), pLoading |-> kind \in LoadingHooks,
   pTouched |-> FALSE,
   isFirebaseUpdate |-> FALSE, previousDayRef |-> day,
   loadedValueRef |-> "null", isInitialMount |-> TRUE, registered |-> "none", reloads |-> {},
   e1 |-> TRUE, e2 |-> TRUE, loads |-> {}, sub |-> "none", written |-> NoWrite, edited |-> FALSE,
   switched |-> FALSE]

Unmounted == [Mounted("none", "-") EXCEPT !.e1 = FALSE, !.e2 = FALSE]

\* setState(v) : queued; Object.is(v, state) means nothing to render (a roster date
\* equal to the one in the state is that same value, whatever day it came from)
SetValue(h, v) ==
  [h EXCEPT !.pValue = v,
            !.value = IF h.kind \in RosterHooks /\ v.data = @.data THEN v ELSE @,
            !.pTouched = IF h.kind \in RosterHooks THEN v.data # h.value.data
                         ELSE ~(v.data = "template" /\ h.value.data = "template")]

\* the load effect, after the cleanup of its previous run
UseEffectLoad(h) ==
  [h EXCEPT !.loads = {[day |-> l.day, live |-> FALSE] : l \in @}
                        \cup {[day |-> h.selectedDay, live |-> TRUE]},
            !.sub = "none",
            !.pLoading = IF h.kind \in LoadingHooks THEN TRUE ELSE @]

\* the reconnect effect, after the cleanup of its previous run: onConnectionChange
\* registers the callback and invokes it at once when the monitor reports Reachable
UseEffectReconnect(h) ==
  [h EXCEPT !.registered = h.selectedDay,
            !.reloads = IF getConnectionStatus THEN @ \cup {h.selectedDay} ELSE @]

\* if (previousDayRef.current !== selectedDay)
DayChanged(h) == h.kind \in DayHooks /\ h.previousDayRef # h.selectedDay

\* if (!isLoading) ; if (rosterDate !== null)
MaySave(h) == IF h.kind = "useRosterDate" THEN h.value.data # "null" ELSE ~h.isLoading

\* the save effect
UseEffectSave(h) ==
  IF h.isFirebaseUpdate THEN [h EXCEPT !.isFirebaseUpdate = FALSE]
  ELSE IF DayChanged(h) THEN [h EXCEPT !.previousDayRef = h.selectedDay]
  ELSE IF MaySave(h)
       THEN [h EXCEPT !.written = [day |-> h.selectedDay, value |-> h.value]]
  ELSE h

\* the save effect of the useRosterDate with loadedValueRef
UseEffectSaveLoaded(h) ==
  IF h.isInitialMount THEN [h EXCEPT !.isInitialMount = FALSE]
  ELSE IF DayChanged(h) THEN [h EXCEPT !.previousDayRef = h.selectedDay]
  ELSE IF h.value.data = h.loadedValueRef THEN h
  ELSE [h EXCEPT !.written = [day |-> h.selectedDay, value |-> h.value]]

\* React runs the effects of the last render, in the order of their declaration
FlushEffects(h) ==
  LET a == IF h.e1 THEN UseEffectLoad(h) ELSE h
      r == IF h.e1 /\ h.kind = ReloadingHook THEN UseEffectReconnect(a) ELSE a
      b == IF ~h.e2 THEN r
           ELSE IF h.kind = ReloadingHook THEN UseEffectSaveLoaded(r)
           ELSE UseEffectSave(r)
  IN [b EXCEPT !.e1 = FALSE, !.e2 = FALSE]

RenderNeeded(h) == h.pDay # h.selectedDay \/ h.pLoading # h.isLoading \/ h.pTouched

\* React renders with the queued updates; an effect is to run when one of its deps changed
Commit(h) ==
  [h EXCEPT !.selectedDay = h.pDay, !.value = h.pValue, !.isLoading = h.pLoading,
            !.pTouched = FALSE,
            !.switched = @ \/ h.pDay # h.selectedDay,
            !.e1 = h.pDay # h.selectedDay,
            !.e2 = RenderNeeded(h)]

\* a user event: React runs the effects still to run, renders at the end of the event
\* and runs the effects of that render at once
Discrete(h) ==
  LET a == FlushEffects(h)
  IN IF RenderNeeded(a) THEN FlushEffects(Commit(a)) ELSE a

\* the continuation of the load effect after await storageService.get...(selectedDay)
LoadResolved(h, l, data) ==
  LET g == [h EXCEPT !.loads = @ \ {l}]
      set == [SetValue(g, IF data = "empty" THEN InitialValue(h.kind)
                          ELSE HookValue(data, l.day))
                EXCEPT !.isFirebaseUpdate = TRUE]
      loaded == IF h.kind = "usePractitionerData" /\ data = "empty" THEN g ELSE set
  IN IF ~l.live THEN g
     ELSE IF h.kind \in LoadingHooks
          THEN [loaded EXCEPT !.pLoading = FALSE, !.sub = l.day]
     ELSE IF h.kind = ReloadingHook
          THEN [SetValue(g, HookValue(data, l.day)) EXCEPT !.loadedValueRef = data]
     ELSE loaded

\* the continuation of the connection callback after
\* await storageService.getRosterDateForDay(selectedDay)
ReloadResolved(h, day, data) ==
  [SetValue([h EXCEPT !.reloads = @ \ {day}], HookValue(data, day))
     EXCEPT !.loadedValueRef = data]

\* the callback handed to subscribeTo...(selectedDay, callback), for a non-empty list
Pushed(h) ==
  [SetValue(h, HookValue("list", h.sub)) EXCEPT !.isFirebaseUpdate = TRUE]

\* the user changes the displayed data: updateTheatre, updatePractitioner, setRosterDate
Edited(h, data) ==
  LET day == IF h.kind \in RosterHooks \/ h.pValue.day = "-" THEN h.selectedDay
             ELSE h.pValue.day
  IN [SetValue(h, HookValue(data, day)) EXCEPT !.edited = TRUE]

TypeOK ==
  /\ USE_FIREBASE \in BOOLEAN
  /\ mode \in {"firebase", "localStorage"}
  /\ isConnected \in BOOLEAN
  /\ clock \in 0..MaxClock
  /\ started \in 0..MaxCalls
  /\ Len(calls) <= started
  /\ Len(subs) <= MaxSubs
  /\ externals \in 0..MaxExternal
  /\ attached \subseteq 1..Len(subs)
  /\ events \subseteq attached
  /\ polls \in {0, 1}
  /\ Registered(connectionCallbacks) \subseteq Callbacks
  /\ cbCalls \in [Callbacks -> 0..MaxNotify]
  /\ greeted \subseteq Callbacks

InitBase ==
  /\ USE_FIREBASE \in BOOLEAN
  /\ mode = IF USE_FIREBASE THEN "firebase" ELSE "localStorage"
  /\ saved = NeverSaved
  /\ dbSnapshots = EmptyObj
  /\ running = <<>>
  /\ isConnected = FALSE
  /\ database = [k \in ByDayKeys |-> [d \in Days |-> EmptyObj]]
  /\ dbSettings = [k \in SettingKeys |-> None]
  /\ dbLunch = <<>>
  /\ dbFlat = [k \in FlatPaths |-> EmptyObj]
  /\ localStorage = [k \in ByDayKeys \cup SettingKeys |-> None]
  /\ calls = <<>>
  /\ last = NoCall
  /\ started = 0
  /\ clock = 0
  /\ listeners = EmptyObj
  /\ lunchListeners = EmptyObj
  /\ attached = {}
  /\ events = {}
  /\ subs = <<>>
  /\ externals = 0
  /\ offlineWrites = [k \in ByDayKeys |-> [d \in Days |-> None]]
  /\ polls = 0
  /\ connectionCallbacks = <<>>
  /\ cbCalls = [c \in Callbacks |-> 0]
  /\ greeted = {}

(* ------------------------- connection monitoring ----------------------- *)
\* the callback FirebaseService registers on .info/connected
ConnectionPush(b) ==
  /\ isConnected' = b
  /\ IF ShouldNotify(isConnected, b)
     THEN /\ \A c \in Registered(connectionCallbacks) : cbCalls[c] < MaxNotify
          /\ cbCalls' = forEachCallback(connectionCallbacks, cbCalls)
     ELSE cbCalls' = cbCalls
  /\ offlineWrites' = IF isConnected /\ ~b THEN [k \in ByDayKeys |-> [d \in Days |-> None]]
                      ELSE offlineWrites
  /\ UNCHANGED <<hook, USE_FIREBASE, saved, running, mode, polls, connectionCallbacks, greeted, remoteVars,
                 localStorage, callVars, clock, subVars, events, externals>>

\* FirebaseService.onConnectionChange
OnConnectionChange(callback) ==
  /\ connectionCallbacks' = IF callback \in Registered(connectionCallbacks)
                            THEN connectionCallbacks
                            ELSE Append(connectionCallbacks, callback)
  /\ greeted' = IF isConnected THEN greeted \cup {callback} ELSE greeted
  /\ UNCHANGED <<hook, USE_FIREBASE, saved, running, mode, isConnected, polls, cbCalls, remoteVars, localStorage,
                 callVars, clock, subVars, events, externals, offlineWrites>>

\* the function onConnectionChange returned: this.connectionCallbacks.delete(callback)
OffConnectionChange(callback) ==
  /\ callback \in Registered(connectionCallbacks)
  /\ connectionCallbacks' = SelectSeq(connectionCallbacks, LAMBDA c : c # callback)
  /\ UNCHANGED <<hook, USE_FIREBASE, saved, running, mode, isConnected, polls, cbCalls, greeted, remoteVars,
                 localStorage, callVars, clock, subVars, events, externals, offlineWrites>>

\* the setInterval callback of initializeConnectionMonitoring
ModeCheck ==
  /\ PollInstalled
  /\ mode' = NextMode(mode, getConnectionStatus)
  /\ polls' = 1 - polls
  /\ UNCHANGED <<hook, USE_FIREBASE, saved, running, isConnected, connVars, remoteVars, localStorage, callVars, clock,
                 subVars, events, externals, offlineWrites>>

\* time passes
Tick ==
  /\ clock < MaxClock
  /\ clock' = clock + 1
  /\ UNCHANGED <<hook, monitorVars, remoteVars, localStorage, callVars, subVars, events, externals,
                 offlineWrites>>

(* ------------------------- per-day reads and writes -------------------- *)
GetForDayStart(key, day) ==
  /\ Start(NewCall("get", key, day, None), isFirebaseAvailable,
           Some(LocalForDay(localStorage, key, day)))
  /\ UNCHANGED <<hook, monitorVars, remoteVars, localStorage, clock, subVars, events, externals,
                 offlineWrites>>

GetForDayOk(i) ==
  /\ Pending(i, "get", ByDayKeys)
  /\ isConnected
  /\ LET c == calls[i]
         data == RemoteForDay(c.key, c.day)
     IN /\ localStorage' = GetOkCache(localStorage, c.key, c.day, data)
        /\ Settle(i, "resolved", "ok", Some(data))
  /\ UNCHANGED <<hook, monitorVars, remoteVars, clock, subVars, events, externals, offlineWrites>>

GetForDayFail(i) ==
  /\ Pending(i, "get", ByDayKeys)
  /\ LET out == GetFailOutcome(localStorage, calls[i].key, calls[i].day)
     IN Settle(i, out.st, "failed", out.ret)
  /\ UNCHANGED <<hook, monitorVars, remoteVars, localStorage, clock, subVars, events, externals,
                 offlineWrites>>

SetForDayStart(key, day, value) ==
  /\ LET firebaseAvailable == isFirebaseAvailable
     IN /\ localStorage' = SetStartCache(localStorage, key, day, value, firebaseAvailable)
        /\ Start(NewCall("set", key, day, Some(value)), firebaseAvailable, None)
  /\ offlineWrites' = IF isConnected THEN offlineWrites
                      ELSE [offlineWrites EXCEPT ![key][day] = Some(value)]
  /\ UNCHANGED <<hook, monitorVars, remoteVars, clock, subVars, events, externals>>

\* the remote store applies the write and acknowledges it; the caller resumes and mirrors
SetForDayAck(i) ==
  /\ Pending(i, "set", ByDayKeys)
  /\ isConnected
  /\ FirstInLine(i)
  /\ LET c == calls[i]
     IN /\ database' = [database EXCEPT ![c.key][c.day] = RemoteValue(c.key, c.arg[1], c.at)]
        /\ localStorage' = Mirror(localStorage, c.key, c.day, c.arg[1])
        /\ events' = Notify(c.key, c.day)
        /\ Settle(i, "resolved", "ok", None)
  /\ UNCHANGED <<hook, monitorVars, dbSettings, dbLunch, dbFlat, dbSnapshots, clock, subVars, externals, offlineWrites>>

SetForDayFail(i) ==
  /\ Pending(i, "set", ByDayKeys)
  /\ LET c == calls[i]
     IN /\ localStorage' = SetFailCache(localStorage, c.key, c.day, c.arg[1])
        /\ Settle(i, SetFailOutcome, "failed", None)
  /\ UNCHANGED <<hook, monitorVars, remoteVars, clock, subVars, events, externals, offlineWrites>>

\* another client of the same remote store writes a day's collection or roster date
ExternalWrite(key, day, value) ==
  /\ externals < MaxExternal
  /\ externals' = externals + 1
  /\ database' = [database EXCEPT ![key][day] = RemoteValue(key, value, clock)]
  /\ database' # database
  /\ events' = Notify(key, day)
  /\ UNCHANGED <<hook, monitorVars, dbSettings, dbLunch, dbFlat, dbSnapshots, localStorage, callVars, clock, subVars,
                 offlineWrites>>

(* ------------------------------- settings ------------------------------ *)
GetSettingStart(key) ==
  /\ \E r \in LocalSettingValues(localStorage, key) :
       Start(NewCall("get", key, "-", None), isFirebaseAvailable, Some(r))
  /\ UNCHANGED <<hook, monitorVars, remoteVars, localStorage, clock, subVars, events, externals,
                 offlineWrites>>

\* getSelectedDay: if (day) return day; otherwise the localStorage fallback
GetSettingOk(i) ==
  /\ Pending(i, "get", SettingKeys)
  /\ isConnected
  /\ LET v == RemoteSetting(calls[i].key)
     IN \E r \in (IF v # None THEN {v[1]} ELSE LocalSettingValues(localStorage, calls[i].key)) :
          Settle(i, "resolved", "ok", Some(r))
  /\ UNCHANGED <<hook, monitorVars, remoteVars, localStorage, clock, subVars, events, externals,
                 offlineWrites>>

GetSettingFail(i) ==
  /\ Pending(i, "get", SettingKeys)
  /\ \E r \in LocalSettingValues(localStorage, calls[i].key) :
       LET out == GetSettingFailOutcome(r)
       IN Settle(i, out.st, "failed", out.ret)
  /\ UNCHANGED <<hook, monitorVars, remoteVars, localStorage, clock, subVars, events, externals,
                 offlineWrites>>

\* setTheme, setHighlightSettings
SetSettingStart(key, value) ==
  /\ LET firebaseAvailable == isFirebaseAvailable
     IN /\ localStorage' = SetStartCache(localStorage, key, "-", value, firebaseAvailable)
        /\ Start(NewCall("set", key, "-", Some(value)), firebaseAvailable, None)
  /\ UNCHANGED <<hook, monitorVars, remoteVars, clock, subVars, events, externals, offlineWrites>>

SetSettingAck(i) ==
  /\ Pending(i, "set", RemoteFirstSettings)
  /\ isConnected
  /\ FirstInLine(i)
  /\ LET c == calls[i]
     IN /\ dbSettings' = [dbSettings EXCEPT ![c.key] = c.arg]
        /\ localStorage' = Mirror(localStorage, c.key, "-", c.arg[1])
        /\ events' = Notify("settings", "-")
        /\ Settle(i, "resolved", "ok", None)
  /\ UNCHANGED <<hook, monitorVars, database, dbLunch, dbFlat, dbSnapshots, clock, subVars, externals, offlineWrites>>

SetSettingFail(i) ==
  /\ Pending(i, "set", RemoteFirstSettings)
  /\ LET c == calls[i]
     IN /\ localStorage' = SetFailCache(localStorage, c.key, "-", c.arg[1])
        /\ Settle(i, SetFailOutcome, "failed", None)
  /\ UNCHANGED <<hook, monitorVars, remoteVars, clock, subVars, events, externals, offlineWrites>>

\* another client writes a setting (theme, highlightSettings or selectedDay)
ExternalSettingWrite(key, value) ==
  /\ externals < MaxExternal
  /\ externals' = externals + 1
  /\ dbSettings' = [dbSettings EXCEPT ![key] = Some(value)]
  /\ dbSettings' # dbSettings
  /\ events' = Notify("settings", "-")
  /\ UNCHANGED <<hook, monitorVars, database, dbLunch, dbFlat, dbSnapshots, localStorage, callVars, clock, subVars,
                 offlineWrites>>

(* ----------------------------- subscriptions --------------------------- *)
Attach(sub, regKey) ==
  /\ subs' = Append(subs, sub)
  /\ attached' = attached \cup {Len(subs) + 1}
  /\ events' = events \cup {Len(subs) + 1}
  /\ listeners' = IF sub.svc = "firebase" THEN ObjSet(listeners, regKey, Len(subs) + 1)
                  ELSE listeners
  /\ lunchListeners' = IF sub.svc = "lunch" THEN ObjSet(lunchListeners, sub.lid, Len(subs) + 1)
                       ELSE lunchListeners

\* StorageService.subscribeToTheatresForDay, subscribeToPractitionersForDay
SubscribeForDay(key, day) ==
  /\ Len(subs) < MaxSubs
  /\ IF SubscribeForDayAttaches
     THEN Attach(NewSub("firebase", key, day), <<key, day>>)
     ELSE /\ subs' = Append(subs, NewSub("noop", key, day))
          /\ UNCHANGED <<hook, listeners, lunchListeners, attached, events>>
  /\ UNCHANGED <<hook, monitorVars, remoteVars, localStorage, callVars, clock, externals, offlineWrites>>

\* StorageService.subscribeToSettings
SubscribeToSettings ==
  /\ Len(subs) < MaxSubs
  /\ Attach(NewSub("firebase", "settings", "-"), <<"settings", "-">>)
  /\ UNCHANGED <<hook, monitorVars, remoteVars, localStorage, callVars, clock, externals, offlineWrites>>

\* LunchRequestService.subscribeToLunchRequests
SubscribeToLunchRequests ==
  /\ Len(subs) < MaxSubs
  /\ Attach(NewSub("lunch", "lunchRequests", "-"), <<"lunchRequests", "-">>)
  /\ UNCHANGED <<hook, monitorVars, remoteVars, localStorage, callVars, clock, externals, offlineWrites>>

\* a call of the unsubscribe function that a subscribe operation returned
Unsubscribe(s) ==
  /\ s \in 1..Len(subs)
  /\ subs[s].unsubs < 2
  /\ LET reg == UnsubscribeFn(s, Registry)
     IN /\ listeners' = reg.listeners
        /\ lunchListeners' = reg.lunchListeners
        /\ attached' = reg.attached
        /\ events' = events \cap reg.attached
  /\ subs' = [subs EXCEPT ![s].unsubs = @ + 1]
  /\ UNCHANGED <<hook, monitorVars, remoteVars, localStorage, callVars, clock, externals, offlineWrites>>

\* the database SDK invokes the callback of an attached listener with the current value
Deliver(s) ==
  /\ s \in events
  /\ s \in attached
  /\ isConnected
  /\ events' = events \ {s}
  /\ subs' = [subs EXCEPT ![s].delivered = TRUE]
  /\ localStorage' = DeliverCache(localStorage, subs[s].root, subs[s].day, Delivered(s))
  /\ UNCHANGED <<hook, monitorVars, remoteVars, callVars, clock, listeners, lunchListeners, attached,
                 externals, offlineWrites>>

\* another client creates a lunch request
ExternalLunchWrite ==
  /\ externals < MaxExternal
  /\ externals' = externals + 1
  /\ dbLunch' = Append(dbLunch, [theatreName |-> "A", status |-> "pending"])
  /\ events' = Notify("lunchRequests", "-")
  /\ UNCHANGED <<hook, monitorVars, database, dbSettings, dbFlat, dbSnapshots, localStorage, callVars, clock, subVars,
                 offlineWrites>>

(* --------------------------- state containers -------------------------- *)
hookFrame == <<USE_FIREBASE, saved, running, mode, polls, connVars, remoteVars, localStorage, callVars, clock,
               subVars, events, externals, offlineWrites>>

HookFlush ==
  /\ hook.e1 \/ hook.e2
  /\ hook' = FlushEffects(hook)
  /\ UNCHANGED <<isConnected, hookFrame>>

HookRender ==
  /\ ~hook.e1 /\ ~hook.e2
  /\ RenderNeeded(hook)
  /\ hook' = Commit(hook)
  /\ UNCHANGED <<isConnected, hookFrame>>

\* the parent renders the hook with another day
HookSelectDay(day) ==
  /\ hook.kind \in DayHooks
  /\ day # hook.pDay
  /\ hook' = Discrete([hook EXCEPT !.pDay = day])
  /\ UNCHANGED <<isConnected, hookFrame>>

HookUserEdit(data) ==
  /\ data \notin {"empty", "template"}
  /\ hook.kind \in RosterHooks => data # hook.pValue.data
  /\ hook' = Discrete(Edited(hook, data))
  /\ UNCHANGED <<isConnected, hookFrame>>

HookLoadResolve(l, data) ==
  /\ l \in hook.loads
  /\ hook' = LoadResolved(hook, l, data)
  /\ UNCHANGED <<isConnected, hookFrame>>

HookPush ==
  /\ hook.sub # "none"
  /\ hook' = Pushed(hook)
  /\ UNCHANGED <<isConnected, hookFrame>>

\* the connection monitor's callback, with the hook's callback registered: on
\* Unreachable -> Reachable the callback starts a read for the day it was made for
HookConnectionPush(b) ==
  /\ hook.kind = ReloadingHook
  /\ isConnected' = b
  /\ hook' = IF ShouldNotify(isConnected, b) /\ hook.registered # "none"
             THEN [hook EXCEPT !.reloads = @ \cup {hook.registered}]
             ELSE hook
  /\ UNCHANGED hookFrame

HookReloadResolve(day, data) ==
  /\ day \in hook.reloads
  /\ hook' = ReloadResolved(hook, day, data)
  /\ UNCHANGED <<isConnected, hookFrame>>

(* ----------------------------- specifications -------------------------- *)
Monitor ==
  \/ \E b \in BOOLEAN : ConnectionPush(b)
  \/ ModeCheck

Facade ==
  \/ \E key \in ByDayKeys, day \in Days : GetForDayStart(key, day)
  \/ \E i \in 1..MaxCalls : GetForDayOk(i)
  \/ \E i \in 1..MaxCalls : GetForDayFail(i)
  \/ \E key \in ByDayKeys, day \in Days : \E value \in SetterInputs(key) :
        SetForDayStart(key, day, value)
  \/ \E i \in 1..MaxCalls : SetForDayAck(i)
  \/ \E i \in 1..MaxCalls : SetForDayFail(i)

Settings ==
  \/ \E key \in SettingKeys : GetSettingStart(key)
  \/ \E i \in 1..MaxCalls : GetSettingOk(i)
  \/ \E i \in 1..MaxCalls : GetSettingFail(i)
  \/ \E key \in RemoteFirstSettings : \E value \in SetterInputs(key) :
        SetSettingStart(key, value)
  \/ \E i \in 1..MaxCalls : SetSettingAck(i)
  \/ \E i \in 1..MaxCalls : SetSettingFail(i)

\* the facade's reads and writes of one storage key, under connectivity changes and
\* writes of other clients to that key
Next ==
  \/ Monitor
  \/ Facade
  \/ Settings
  \/ \E day \in Days : \E value \in SetterInputs(target) :
        target \in ByDayKeys /\ ExternalWrite(target, day, value)
  \/ \E value \in SetterInputs(target) :
        target \in SettingKeys /\ ExternalSettingWrite(target, value)

Init == InitBase /\ hook = Unmounted /\ target \in ByDayKeys \cup SettingKeys

Spec == Init /\ [][Next]_vars

\* subscriptions to one remote path, under connectivity changes and writes of other
\* clients to that path
NextSubs ==
  \/ Monitor
  \/ target = "lunchRequests" /\ Tick
  \/ \E day \in Days : target \in CollectionKeys /\ SubscribeForDay(target, day)
  \/ target = "settings" /\ SubscribeToSettings
  \/ target = "lunchRequests" /\ SubscribeToLunchRequests
  \/ \E s \in 1..MaxSubs : Unsubscribe(s)
  \/ \E s \in 1..MaxSubs : Deliver(s)
  \/ \E day \in Days : \E value \in SetterInputs(target) :
        target \in CollectionKeys /\ ExternalWrite(target, day, value)
  \/ \E key \in SettingKeys : \E value \in SetterInputs(key) :
        target = "settings" /\ ExternalSettingWrite(key, value)
  \/ target = "lunchRequests" /\ ExternalLunchWrite

InitSubs ==
  InitBase /\ hook = Unmounted /\ target \in CollectionKeys \cup {"settings", "lunchRequests"}

SpecSubs == InitSubs /\ [][NextSubs]_vars

\* the connection monitor and its listeners, and the mode polling
NextMonitor ==
  \/ Monitor
  \/ \E callback \in Callbacks : OnConnectionChange(callback)
  \/ \E callback \in Callbacks : OffConnectionChange(callback)

InitMonitor == InitBase /\ hook = Unmounted /\ target = "connection"

SpecMonitor == InitMonitor /\ [][NextMonitor]_vars

\* one state container under user actions, day switches, loads and pushes; after a load
\* or a push React renders and runs the effects at any later moment
NextHook ==
  \/ HookFlush
  \/ HookRender
  \/ \E day \in Days : HookSelectDay(day)
  \/ \E data \in HookData(hook.kind) : HookUserEdit(data)
  \/ \E l \in hook.loads : \E data \in HookData(hook.kind) : HookLoadResolve(l, data)
  \/ HookPush
  \/ \E b \in BOOLEAN : HookConnectionPush(b)
  \/ \E day \in hook.reloads : \E data \in HookData(hook.kind) : HookReloadResolve(day, data)

InitHook ==
  /\ InitBase
  /\ USE_FIREBASE
  /\ target = "hook"
  /\ \E kind \in HookKinds :
       \E day \in (IF kind \in DayHooks THEN Days ELSE {"-"}) : hook = Mounted(kind, day)

SpecHook == InitHook /\ [][NextHook]_vars

\* a start of the application: the constructor of StorageService runs the migration
Migrate(today) ==
  /\ localStorage' = migrateToWeeklyStructure(localStorage, today)
  /\ UNCHANGED <<hook, monitorVars, remoteVars, callVars, clock, subVars, events, externals,
                 offlineWrites>>

\* ---- the reload on reconnection ----
\* the connection callback that the reconnect effect of useRosterDate registers
ReloadCallback == 2

\* the connection monitor's callback with the hook's callback among the registered
\* ones: on Unreachable -> Reachable the hook's callback is invoked and calls
\* storageService.getRosterDateForDay(day), which chooses its path at once
ConnectionPushReload(b, day) ==
  /\ isConnected' = b
  /\ UNCHANGED <<USE_FIREBASE, saved, running, mode, polls, connectionCallbacks, greeted>>
  /\ IF ShouldNotify(isConnected, b)
     THEN /\ \A c \in Registered(connectionCallbacks) : cbCalls[c] < MaxNotify
          /\ cbCalls' = forEachCallback(connectionCallbacks, cbCalls)
     ELSE cbCalls' = cbCalls
  /\ IF ShouldNotify(isConnected, b) /\ ReloadCallback \in Registered(connectionCallbacks)
     THEN Start([NewCall("get", "rosterDatesByDay", day, None) EXCEPT !.conn = b],
                isFirebaseAvailable',
                Some(LocalForDay(localStorage, "rosterDatesByDay", day)))
     ELSE UNCHANGED callVars
  /\ offlineWrites' = IF isConnected /\ ~b THEN [k \in ByDayKeys |-> [d \in Days |-> None]]
                      ELSE offlineWrites
  /\ UNCHANGED <<hook, remoteVars, localStorage, clock, subVars, events, externals>>

\* the connection monitor, the mode polling and the reads that the hook's connection
\* callback starts, with another client writing the roster dates
NextReload ==
  \/ \E b \in BOOLEAN : \E day \in Days : ConnectionPushReload(b, day)
  \/ ModeCheck
  \/ OnConnectionChange(ReloadCallback)
  \/ OffConnectionChange(ReloadCallback)
  \/ \E i \in 1..MaxCalls : GetForDayOk(i)
  \/ \E i \in 1..MaxCalls : GetForDayFail(i)
  \/ \E day \in Days : \E value \in SetterInputs(target) : ExternalWrite(target, day, value)

InitReload == InitBase /\ hook = Unmounted /\ target = "rosterDatesByDay"

SpecReload == InitReload /\ [][NextReload]_vars

NextMigrate == \E today \in Days : Migrate(today)

\* what the browser may hold when the application starts: legacy lists, a weekly
\* structure written by an earlier start, both or neither
WeeklyValues == {None, Some(EmptyObj)} \cup {Some([day \in Days |-> x]) : x \in InputLists}

LegacyValues == {None} \cup {Some(x) : x \in InputLists}

CacheOf(theatres, practitioners, theatresWeek, practitionersWeek, day) ==
  [k \in ByDayKeys \cup SettingKeys \cup LegacyKeys \cup BackupKeys |->
     IF k = "theatreData" THEN theatres
     ELSE IF k = "practitionerListData" THEN practitioners
     ELSE IF k = "theatresByDay" THEN theatresWeek
     ELSE IF k = "practitionersByDay" THEN practitionersWeek
     ELSE IF k = "selectedDay" THEN day
     ELSE None]

InitMigrate ==
  /\ USE_FIREBASE \in BOOLEAN
  /\ mode = IF USE_FIREBASE THEN "firebase" ELSE "localStorage"
  /\ saved = NeverSaved
  /\ dbSnapshots = EmptyObj
  /\ running = <<>>
  /\ isConnected = FALSE
  /\ database = [k \in ByDayKeys |-> [d \in Days |-> EmptyObj]]
  /\ dbSettings = [k \in SettingKeys |-> None]
  /\ dbLunch = <<>>
  /\ dbFlat = [k \in FlatPaths |-> EmptyObj]
  /\ \E theatres \in LegacyValues, practitioners \in LegacyValues :
       \E theatresWeek \in WeeklyValues, practitionersWeek \in WeeklyValues :
         \E day \in {None} \cup {Some(d) : d \in Days} :
           localStorage = CacheOf(theatres, practitioners, theatresWeek, practitionersWeek, day)
  /\ calls = <<>> /\ last = NoCall /\ started = 0 /\ target = "migration"
  /\ clock = 0
  /\ listeners = EmptyObj /\ lunchListeners = EmptyObj /\ attached = {} /\ events = {}
  /\ subs = <<>> /\ externals = 0
  /\ offlineWrites = [k \in ByDayKeys |-> [d \in Days |-> None]]
  /\ polls = 0 /\ connectionCallbacks = <<>> /\ cbCalls = [c \in Callbacks |-> 0]
  /\ greeted = {}
  /\ hook = Unmounted

SpecMigrate == InitMigrate /\ [][NextMigrate]_vars

\* ---- the writes that store in localStorage before they try the remote store ----
\* the call is made after the localStorage writes: it waits for the remote store or,
\* with the remote not available, it is over
CacheFirst(c) ==
  /\ started < MaxCalls
  /\ started' = started + 1
  /\ target' = target
  /\ IF isFirebaseAvailable
     THEN calls' = Append(calls, c) /\ last' = last
     ELSE calls' = calls /\ last' = Settled(c, "resolved", "none", None)

ImportStart(data, today) ==
  /\ localStorage' = ImportCache(localStorage, data, today)
  /\ CacheFirst(NewCall("import", "all", today, Some(data)))
  /\ UNCHANGED <<hook, monitorVars, remoteVars, clock, subVars, events, externals, offlineWrites>>

\* every write of FirebaseService.importAllData is acknowledged
ImportAck(i) ==
  /\ Pending(i, "import", {"all"})
  /\ isConnected
  /\ LET c == calls[i]
         after == ImportRemote(c.arg[1], ImportWrites(c.arg[1]), c.at)
     IN /\ dbFlat' = after.dbFlat
        /\ dbSettings' = after.dbSettings
        /\ events' = IF dbSettings' # dbSettings THEN Notify("settings", "-") ELSE events
        /\ Settle(i, "resolved", "ok", None)
  /\ UNCHANGED <<hook, monitorVars, database, dbLunch, dbSnapshots, localStorage, clock, subVars, externals,
                 offlineWrites>>

\* one of the writes fails: Promise.all rejects, what the other writes did stays
ImportFail(i) ==
  /\ Pending(i, "import", {"all"})
  /\ LET c == calls[i]
         writes == ImportWrites(c.arg[1])
     IN \E done \in SUBSET writes :
          /\ done # writes
          /\ done # {} => isConnected
          /\ LET after == ImportRemote(c.arg[1], done, c.at)
             IN /\ dbFlat' = after.dbFlat
                /\ dbSettings' = after.dbSettings
                /\ events' = IF dbSettings' # dbSettings THEN Notify("settings", "-") ELSE events
          /\ Settle(i, ImportFailOutcome, "failed", None)
  /\ UNCHANGED <<hook, monitorVars, database, dbLunch, dbSnapshots, localStorage, clock, subVars, externals,
                 offlineWrites>>

\* setSelectedDay(day), setTheatres(list), setPractitioners(list)
SetCacheFirstStart(key, value) ==
  /\ localStorage' = saveToLocalStorage(localStorage, key, value)
  /\ CacheFirst(NewCall("set", key, "-", Some(value)))
  /\ UNCHANGED <<hook, monitorVars, remoteVars, clock, subVars, events, externals, offlineWrites>>

SetCacheFirstAck(i) ==
  /\ Pending(i, "set", CacheFirstKeys)
  /\ isConnected
  /\ LET c == calls[i]
     IN /\ IF c.key = "selectedDay"
           THEN /\ dbSettings' = [dbSettings EXCEPT !["selectedDay"] = c.arg]
                /\ events' = Notify("settings", "-")
                /\ dbFlat' = dbFlat
           ELSE /\ dbFlat' = [dbFlat EXCEPT ![FlatPath(c.key)] =
                                              arrayToFirebaseObject(c.arg[1], c.at)]
                /\ UNCHANGED <<dbSettings, events>>
        /\ Settle(i, "resolved", "ok", None)
  /\ UNCHANGED <<hook, monitorVars, database, dbLunch, dbSnapshots, localStorage, clock, subVars, externals,
                 offlineWrites>>

SetCacheFirstFail(i) ==
  /\ Pending(i, "set", CacheFirstKeys)
  /\ Settle(i, CacheFirstFailOutcome, "failed", None)
  /\ UNCHANGED <<hook, monitorVars, remoteVars, localStorage, clock, subVars, events, externals,
                 offlineWrites>>

\* imports and cache-first writes, with reads of one collection, under connectivity
\* changes
NextImport ==
  \/ Monitor
  \/ \E data \in ImportDocs, today \in Days : ImportStart(data, today)
  \/ \E i \in 1..MaxCalls : ImportAck(i)
  \/ \E i \in 1..MaxCalls : ImportFail(i)
  \/ \E day \in Days : SetCacheFirstStart("selectedDay", day)
  \/ \E key \in LegacyKeys : \E value \in InputLists : SetCacheFirstStart(key, value)
  \/ \E i \in 1..MaxCalls : SetCacheFirstAck(i)
  \/ \E i \in 1..MaxCalls : SetCacheFirstFail(i)
  \/ \E day \in Days : GetForDayStart(target, day)
  \/ \E i \in 1..MaxCalls : GetForDayOk(i)
  \/ \E i \in 1..MaxCalls : GetForDayFail(i)

InitImport ==
  /\ USE_FIREBASE \in BOOLEAN
  /\ mode = IF USE_FIREBASE THEN "firebase" ELSE "localStorage"
  /\ saved = NeverSaved
  /\ dbSnapshots = EmptyObj
  /\ running = <<>>
  /\ isConnected = FALSE
  /\ database = [k \in ByDayKeys |-> [d \in Days |-> EmptyObj]]
  /\ dbSettings = [k \in SettingKeys |-> None]
  /\ dbLunch = <<>>
  /\ dbFlat = [k \in FlatPaths |-> EmptyObj]
  /\ localStorage = CacheOf(None, None, None, None, None)
  /\ calls = <<>> /\ last = NoCall /\ started = 0 /\ target \in CollectionKeys
  /\ clock = 0
  /\ listeners = EmptyObj /\ lunchListeners = EmptyObj /\ attached = {} /\ events = {}
  /\ subs = <<>> /\ externals = 0
  /\ offlineWrites = [k \in ByDayKeys |-> [d \in Days |-> None]]
  /\ polls = 0 /\ connectionCallbacks = <<>> /\ cbCalls = [c \in Callbacks |-> 0]
  /\ greeted = {}
  /\ hook = Unmounted

SpecImport == InitImport /\ [][NextImport]_vars

(* ------------------------- theatre order assignment -------------------- *)
\* the theatre lists a load, a subscription delivery or a backup file can hold: records
\* with pairwise distinct names, each with or without an order, the orders that are
\* present pairwise distinct
TheatreNames == {"A", "B", "C"}
TheatreRecords ==
  {[name |-> nm] : nm \in TheatreNames}
    \cup {[name |-> nm, order |-> o] : nm \in TheatreNames, o \in 0..MaxLen}

HasOrder(t) == "order" \in DOMAIN t

TheatreLists ==
  {l \in UNION {[1..n -> TheatreRecords] : n \in 0..MaxLen} :
     \A i, j \in 1..Len(l) :
       i # j => /\ l[i].name # l[j].name
                /\ (HasOrder(l[i]) /\ HasOrder(l[j])) => l[i].order # l[j].order}

\* const initialTheatreData = [...] : order 0, 1, 2, ... in list order
initialTheatreData == <<[name |-> "A", order |-> 0], [name |-> "B", order |-> 1]>>

\* .map((t, index) => ({...t, order: t.order !== undefined ? t.order : index}))
OrderFromIndex(list) ==
  [i \in 1..Len(list) |->
     IF HasOrder(list[i]) THEN list[i]
     ELSE [f \in DOMAIN list[i] \cup {"order"} |-> IF f = "order" THEN i - 1 ELSE list[i][f]]]

\* .sort((a, b) => a.order - b.order) : Array.prototype.sort is stable
SortByOrder(list) ==
  LET before(i, j) == \/ list[i].order < list[j].order
                      \/ list[i].order = list[j].order /\ i < j
      rank(i) == 1 + Cardinality({j \in 1..Len(list) : before(j, i)})
  IN [r \in 1..Len(list) |-> list[CHOOSE i \in 1..Len(list) : rank(i) = r]]

sortedData(list) == SortByOrder(OrderFromIndex(list))

TheatreState(theatres, from) == [kind |-> "useTheatreData", theatres |-> theatres, from |-> from]

\* initializeTheatres, after getTheatresForDay has resolved with initialData
OrderLoad(initialData) ==
  /\ hook' = TheatreState(IF Len(initialData) > 0 THEN sortedData(initialData)
                          ELSE initialTheatreData, "load")
  /\ UNCHANGED <<isConnected, hookFrame>>

\* the callback handed to subscribeToTheatresForDay
OrderDelivery(updatedTheatres) ==
  /\ Len(updatedTheatres) > 0
  /\ hook' = TheatreState(sortedData(updatedTheatres), "subscription")
  /\ UNCHANGED <<isConnected, hookFrame>>

\* handleDataUpload : theatresWithOrder, then setTheatres(theatresWithOrder)
OrderUpload(theatres) ==
  /\ Len(theatres) > 0
  /\ hook' = TheatreState(sortedData(theatres), "upload")
  /\ UNCHANGED <<isConnected, hookFrame>>

NextOrder ==
  \/ \E l \in TheatreLists : OrderLoad(l)
  \/ \E l \in TheatreLists : OrderDelivery(l)
  \/ \E l \in TheatreLists : OrderUpload(l)

InitOrder ==
  /\ InitBase
  /\ target = "theatresByDay"
  /\ hook = TheatreState(initialTheatreData, "useState")

SpecOrder == InitOrder /\ [][NextOrder]_vars

(* --------------------------- the Local Cache adapter ------------------- *)
\* data that JSON.stringify turns into no text
Unserializable == {JsUndefined, JsCyclic}

CacheCall(op, key, arg, failed, r) ==
  [op |-> op, key |-> key, arg |-> arg, failed |-> failed, threw |-> r.threw, v |-> r.v]

\* storageService.saveToLocalStorage(key, data)
CacheSave(data, quotaExceeded) ==
  LET r == saveToLocalStorageText(localStorage, target, data, quotaExceeded)
      failed == data \in Unserializable \/ quotaExceeded
  IN /\ localStorage' = r.store
     /\ last' = CacheCall("save", target, data, failed, [threw |-> r.threw, v |-> JsUndefined])
     /\ saved' = IF failed THEN saved ELSE [saved EXCEPT ![target] = data]
     /\ UNCHANGED <<hook, USE_FIREBASE, running, mode, isConnected, polls, connVars, remoteVars, calls,
                    started, target, clock, subVars, events, externals, offlineWrites>>

\* storageService.loadFromLocalStorage(key, defaultValue)
CacheLoad(defaultValue, denied) ==
  /\ last' = CacheCall("load", target, defaultValue, denied,
                       loadFromLocalStorageText(localStorage, target, defaultValue, denied))
  /\ UNCHANGED <<hook, USE_FIREBASE, saved, running, mode, isConnected, polls, connVars, remoteVars,
                 localStorage, calls, started, target, clock, subVars, events, externals,
                 offlineWrites>>

\* other code of the origin writes the key
ForeignSetItem(text) ==
  /\ localStorage' = [localStorage EXCEPT ![target] = Some(text)]
  /\ saved' = [saved EXCEPT ![target] = "foreign"]
  /\ last' = CacheCall("setItem", target, text, FALSE, Return(JsUndefined))
  /\ UNCHANGED <<hook, USE_FIREBASE, running, mode, isConnected, polls, connVars, remoteVars, calls,
                 started, target, clock, subVars, events, externals, offlineWrites>>

NextCache ==
  \/ \E data \in JsValues, quotaExceeded \in BOOLEAN : CacheSave(data, quotaExceeded)
  \/ \E defaultValue \in DefaultValues, denied \in BOOLEAN : CacheLoad(defaultValue, denied)
  \/ \E text \in ForeignTexts : ForeignSetItem(text)

InitCache ==
  /\ InitBase
  /\ hook = Unmounted
  /\ target \in {"theme", "theatresByDay"}

SpecCache == InitCache /\ [][NextCache]_vars

(* ----------------------- map and list conversions ---------------------- *)
\* the lists handed to arrayToFirebaseObject: records of two fields, names that may
\* be empty or repeated
ConvertRecords == {[name |-> nm, v |-> x] : nm \in Names \cup {""}, x \in {1, 2}}
ConvertLists == UNION {[1..n -> ConvertRecords] : n \in 0..MaxLen}

Conversion(op, arg, ret, from) == [op |-> op, arg |-> arg, ret |-> ret, from |-> from]

\* arrayToFirebaseObject(array), Date.now() being now
ToFirebaseObject(array, now) ==
  /\ last' = Conversion("arrayToFirebaseObject", array, arrayToFirebaseObject(array, now), array)
  /\ clock' = now
  /\ UNCHANGED <<hook, monitorVars, remoteVars, localStorage, calls, started, target, subVars,
                 events, externals, offlineWrites>>

\* firebaseObjectToArray(firebaseObject), of the object made last
ToArray ==
  /\ last.op = "arrayToFirebaseObject"
  /\ last' = Conversion("firebaseObjectToArray", last.ret, firebaseObjectToArray(last.ret),
                        last.from)
  /\ UNCHANGED <<hook, monitorVars, remoteVars, localStorage, calls, started, target, clock,
                 subVars, events, externals, offlineWrites>>

NextConvert ==
  \/ \E array \in ConvertLists, now \in 0..MaxClock : ToFirebaseObject(array, now)
  \/ ToArray

InitConvert ==
  /\ InitBase
  /\ hook = Unmounted
  /\ target = "theatresByDay"

SpecConvert == InitConvert /\ [][NextConvert]_vars

(* ------------------------------ SnapshotService ------------------------ *)
\* const MAX_SNAPSHOTS_PER_DAY = 10
MAX_SNAPSHOTS_PER_DAY == 10

\* the hour keys of a day's snapshots: Math.floor(now / 3600000) * 3600000, in hours
HourKeys == 1..MaxHours

\* the day that startAutoSnapshots was called with
SnapshotDay == AllDays[1]

\* the hour of the clock of a client: that of the newest snapshot, or the one after it
HoursNow ==
  IF DOMAIN dbSnapshots = {} THEN {1}
  ELSE LET newest == CHOOSE k \in DOMAIN dbSnapshots : \A j \in DOMAIN dbSnapshots : j <= k
       IN {newest, newest + 1} \cap HourKeys

\* the three reads of takeSnapshot, each through the facade: the remote value, mirrored
\* into the cache, when Firebase is available, the cached value otherwise
RECURSIVE SnapshotReads(_, _, _)
SnapshotReads(keys, ls, got) ==
  IF keys = <<>> THEN [ls |-> ls, got |-> got]
  ELSE LET key == Head(keys)
           value == IF isFirebaseAvailable THEN RemoteForDay(key, SnapshotDay)
                    ELSE LocalForDay(ls, key, SnapshotDay)
           cache == IF isFirebaseAvailable THEN GetOkCache(ls, key, SnapshotDay, value) ELSE ls
       IN SnapshotReads(Tail(keys), cache, ObjSet(got, key, value))

\* { timestamp: now, hour, dayOfWeek, theatres, practitioners, rosterDate }
SnapshotOf(now, got) ==
  [timestamp |-> now, theatres |-> got["theatresByDay"],
   practitioners |-> got["practitionersByDay"], rosterDate |-> got["rosterDatesByDay"]]

Cleanup(pc, read, toDelete) == [op |-> "cleanup", pc |-> pc, read |-> read, toDelete |-> toDelete]

\* snapshots.sort((a, b) => b[1].timestamp - a[1].timestamp).slice(MAX_SNAPSHOTS_PER_DAY)
SliceOldest(snapshots) ==
  {k \in DOMAIN snapshots :
     Cardinality({j \in DOMAIN snapshots : snapshots[j].timestamp > snapshots[k].timestamp})
       >= MAX_SNAPSHOTS_PER_DAY}

Without(snapshots, keys) == [k \in DOMAIN snapshots \ keys |-> snapshots[k]]

\* takeSnapshot(dayOfWeek), the remote store accepting the write: the day is read, the
\* snapshot is set under its hour key, and cleanupOldSnapshots is called, not awaited
TakeSnapshot(now) ==
  /\ isConnected
  /\ running = <<>>
  /\ LET r == SnapshotReads(<<"theatresByDay", "practitionersByDay", "rosterDatesByDay">>,
                            localStorage, EmptyObj)
     IN /\ localStorage' = r.ls
        /\ dbSnapshots' = ObjSet(dbSnapshots, now, SnapshotOf(now, r.got))
  /\ running' = <<Cleanup("get", {}, {})>>
  /\ UNCHANGED <<hook, USE_FIREBASE, saved, mode, isConnected, polls, connVars, database,
                 dbSettings, dbLunch, dbFlat, callVars, clock, subVars, events, externals,
                 offlineWrites>>

\* cleanupOldSnapshots: the get resolves; with more than MAX_SNAPSHOTS_PER_DAY entries
\* the removes of the oldest are sent, otherwise the cleanup returns
CleanupGet ==
  /\ running # <<>> /\ running[1].op = "cleanup" /\ running[1].pc = "get"
  /\ isConnected
  /\ LET exists == DOMAIN dbSnapshots # {}
         toDelete == SliceOldest(dbSnapshots)
     IN IF exists /\ Cardinality(DOMAIN dbSnapshots) > MAX_SNAPSHOTS_PER_DAY
        THEN /\ running' = <<Cleanup("remove", DOMAIN dbSnapshots, toDelete)>>
             /\ last' = last
        ELSE /\ running' = <<>>
             /\ last' = [op |-> "cleanup", read |-> Cardinality(DOMAIN dbSnapshots),
                         kept |-> {}, deleted |-> {}, failed |-> FALSE]
  /\ UNCHANGED <<hook, USE_FIREBASE, saved, mode, isConnected, polls, connVars, remoteVars,
                 localStorage, calls, started, target, clock, subVars, events, externals,
                 offlineWrites>>

\* the removes reach the remote store: those in done are applied, the others fail and
\* Promise.all rejects into the catch of the cleanup
CleanupRemove(done) ==
  /\ running # <<>> /\ running[1].op = "cleanup" /\ running[1].pc = "remove"
  /\ done \subseteq running[1].toDelete
  /\ done # {} => isConnected
  /\ dbSnapshots' = Without(dbSnapshots, done)
  /\ running' = <<>>
  /\ last' = [op |-> "cleanup", read |-> Cardinality(running[1].read),
              kept |-> running[1].read \ running[1].toDelete, deleted |-> done,
              failed |-> done # running[1].toDelete]
  /\ UNCHANGED <<hook, USE_FIREBASE, saved, mode, isConnected, polls, connVars, database,
                 dbSettings, dbLunch, dbFlat, localStorage, calls, started, target, clock,
                 subVars, events, externals, offlineWrites>>

\* another client, its clock in the same hour or the next, takes its snapshot of the day
ExternalSnapshot(now) ==
  /\ now \notin DOMAIN dbSnapshots
  /\ dbSnapshots' = ObjSet(dbSnapshots, now, SnapshotOf(now, [k \in ByDayKeys |-> None]))
  /\ UNCHANGED <<hook, monitorVars, database, dbSettings, dbLunch, dbFlat, localStorage,
                 callVars, clock, subVars, events, externals, offlineWrites>>

NextSnapshot ==
  \/ \E b \in BOOLEAN : ConnectionPush(b)
  \/ ModeCheck
  \/ \E now \in HoursNow : TakeSnapshot(now)
  \/ CleanupGet
  \/ \E done \in SUBSET HourKeys : CleanupRemove(done)
  \/ \E now \in HoursNow : ExternalSnapshot(now)

InitSnapshot ==
  /\ InitBase
  /\ hook = Unmounted
  /\ target = "theatresByDay"

SpecSnapshot == InitSnapshot /\ [][NextSnapshot]_vars

(* --------------- useTheatreData: the listeners of the load effect ------- *)
\* a run of the load effect: its day, its `mounted`, and the subscription it made
\* (0 while its initial read is pending)
EffectRun(day) == [day |-> day, mounted |-> TRUE, sub |-> 0]

\* the hook: `runs` are the runs of its load effect, the last one the current one;
\* unsubscribeRef is the subscription whose unsubscribe function the ref holds
TheatreListeners(day) ==
  [kind |-> "useTheatreData/listeners", selectedDay |-> day, alive |-> TRUE,
   runs |-> <<EffectRun(day)>>, unsubscribeRef |-> 0]

\* return () => { mounted = false; if (unsubscribeRef.current) unsubscribeRef.current() }
EffectCleanup(h) ==
  [h EXCEPT !.runs[Len(h.runs)].mounted = FALSE]

CleanupRegistry(h) ==
  IF h.unsubscribeRef # 0 THEN UnsubscribeFn(h.unsubscribeRef, Registry) ELSE Registry

\* the cleanup of the current run, as part of a day switch or of the unmount
RunCleanup(h) ==
  LET reg == CleanupRegistry(hook)
  IN /\ hook' = h
     /\ listeners' = reg.listeners
     /\ lunchListeners' = reg.lunchListeners
     /\ attached' = reg.attached
     /\ events' = events \cap reg.attached
     /\ subs' = IF hook.unsubscribeRef # 0
                THEN [subs EXCEPT ![hook.unsubscribeRef].unsubs = IF @ < 2 THEN @ + 1 ELSE @]
                ELSE subs
     /\ UNCHANGED <<monitorVars, remoteVars, localStorage, callVars, clock, externals,
                    offlineWrites>>

\* the user selects another day: the effect is cleaned up and runs again
ListenersSelectDay(day) ==
  /\ hook.alive
  /\ day # hook.selectedDay
  /\ Len(hook.runs) < MaxSubs
  /\ RunCleanup([EffectCleanup(hook) EXCEPT !.selectedDay = day,
                                            !.runs = Append(@, EffectRun(day))])

\* the component is unmounted
ListenersUnmount ==
  /\ hook.alive
  /\ RunCleanup([EffectCleanup(hook) EXCEPT !.alive = FALSE])

\* the initial read of run i has settled: the run goes on to
\* unsubscribeRef.current = storageService.subscribeToTheatresForDay(selectedDay, ...)
ListenersSubscribe(i) ==
  /\ i \in 1..Len(hook.runs)
  /\ hook.runs[i].sub = 0
  /\ hook' = [hook EXCEPT !.runs[i].sub = Len(subs) + 1, !.unsubscribeRef = Len(subs) + 1]
  /\ IF SubscribeForDayAttaches
     THEN Attach(NewSub("firebase", "theatresByDay", hook.runs[i].day),
                 <<"theatresByDay", hook.runs[i].day>>)
     ELSE /\ subs' = Append(subs, NewSub("noop", "theatresByDay", hook.runs[i].day))
          /\ UNCHANGED <<listeners, lunchListeners, attached, events>>
  /\ UNCHANGED <<monitorVars, remoteVars, localStorage, callVars, clock, externals,
                 offlineWrites>>

NextListeners ==
  \/ \E day \in Days : ListenersSelectDay(day)
  \/ ListenersUnmount
  \/ \E i \in 1..MaxSubs : ListenersSubscribe(i)
  \/ \E b \in BOOLEAN : ConnectionPush(b)
  \/ \E s \in 1..MaxSubs : Deliver(s)
  \/ \E day \in Days : \E value \in SetterInputs(target) : ExternalWrite(target, day, value)

InitListeners ==
  /\ InitBase
  /\ target = "theatresByDay"
  /\ \E day \in Days : hook = TheatreListeners(day)

SpecListeners == InitListeners /\ [][NextListeners]_vars

(* -------------- lunchRequestService.js and useLunchRequests.js ---------- *)
LunchTheatres == {"A", "B"}

\* requestData of createLunchRequest (the timestamps left out)
LunchRequest(theatreName) == [theatreName |-> theatreName, status |-> "pending"]

\* requests.some(request => request.theatreName === theatreName && request.status === 'pending')
hasPendingRequest(requests, theatreName) ==
  \E i \in DOMAIN requests :
    requests[i].theatreName = theatreName /\ requests[i].status = "pending"

\* a createRequest(theatreName) under way: awaiting hasPendingRequest ("check") or
\* createLunchRequest ("create")
CreateCall(theatreName, pc) == [op |-> "createRequest", theatreName |-> theatreName, pc |-> pc]

CreateAt(i, pc) ==
  i \in DOMAIN running /\ running[i].op = "createRequest" /\ running[i].pc = pc

\* createRequest returns
CreateReturn(i, ret) ==
  /\ running' = RemoveAt(running, i)
  /\ last' = [op |-> "createRequest", theatreName |-> running[i].theatreName, ret |-> ret]

lunchFrame == <<hook, USE_FIREBASE, saved, mode, isConnected, polls, connVars, database,
                dbSettings, dbFlat, dbSnapshots, localStorage, calls, target, clock, subVars,
                events, externals, offlineWrites>>

\* a client calls createRequest(theatreName): the read of hasPendingRequest is sent
createRequest(theatreName) ==
  /\ started < MaxCalls
  /\ started' = started + 1
  /\ running' = Append(running, CreateCall(theatreName, "check"))
  /\ UNCHANGED <<lunchFrame, dbLunch, last>>

\* the read resolves: with a pending request of the theatre createRequest sets the error
\* and returns false, otherwise the set of createLunchRequest is sent
HasPendingResolves(i) ==
  /\ CreateAt(i, "check")
  /\ IF hasPendingRequest(dbLunch, running[i].theatreName)
     THEN CreateReturn(i, FALSE)
     ELSE /\ running' = [running EXCEPT ![i].pc = "create"]
          /\ last' = last
  /\ UNCHANGED <<lunchFrame, dbLunch, started>>

\* the read rejects: hasPendingRequest logs and returns false, so the set is sent
HasPendingRejects(i) ==
  /\ CreateAt(i, "check")
  /\ running' = [running EXCEPT ![i].pc = "create"]
  /\ UNCHANGED <<lunchFrame, dbLunch, started, last>>

\* the remote store applies the set of createLunchRequest; createRequest returns true
CreateLunchRequestAck(i) ==
  /\ CreateAt(i, "create")
  /\ dbLunch' = Append(dbLunch, LunchRequest(running[i].theatreName))
  /\ CreateReturn(i, TRUE)
  /\ UNCHANGED <<lunchFrame, started>>

\* the set rejects: createLunchRequest rethrows, createRequest returns false
CreateLunchRequestFail(i) ==
  /\ CreateAt(i, "create")
  /\ CreateReturn(i, FALSE)
  /\ UNCHANGED <<lunchFrame, dbLunch, started>>

\* markAsFulfilled(requestId), the remote store applying the update
markAsFulfilled(id) ==
  /\ id \in DOMAIN dbLunch
  /\ dbLunch[id].status = "pending"
  /\ dbLunch' = [dbLunch EXCEPT ![id].status = "fulfilled"]
  /\ UNCHANGED <<lunchFrame, running, started, last>>

NextLunch ==
  \/ \E t \in LunchTheatres : createRequest(t)
  \/ \E i \in 1..MaxCalls : HasPendingResolves(i)
  \/ \E i \in 1..MaxCalls : HasPendingRejects(i)
  \/ \E i \in 1..MaxCalls : CreateLunchRequestAck(i)
  \/ \E i \in 1..MaxCalls : CreateLunchRequestFail(i)
  \/ \E id \in 1..MaxCalls : markAsFulfilled(id)

InitLunch ==
  /\ InitBase
  /\ hook = Unmounted
  /\ target = "lunchRequests"

SpecLunch == InitLunch /\ [][NextLunch]_vars

(* ---------------------- SnapshotService.restoreSnapshot ----------------- *)
\* data.theatres, data.practitioners, data.rosterDate
SnapshotField(data, key) ==
  IF key = "theatresByDay" THEN data.theatres
  ELSE IF key = "practitionersByDay" THEN data.practitioners
  ELSE data.rosterDate

\* the remote store keeps neither an empty array nor a null, so snapshot.val() has no
\* such field: reading it yields undefined
IsUndefined(data, key) == SnapshotField(data, key) = None

\* a restoreSnapshot under way: awaiting getSnapshot ("get") or the remote write of
\* the setter of a key; `rest` are the keys whose setters are still to be called
\*   changed: history, the keys whose stored value the call has changed
\*   written: history, the keys whose setter has completed
Restore(pc, ts, rest, changed, written) ==
  [op |-> "restoreSnapshot", pc |-> pc, ts |-> ts, rest |-> rest, changed |-> changed,
   written |-> written]

\* the hours of the timestamps that restoreSnapshot is called with
MaxRestoreHour == 2

RestoreOrder == <<"theatresByDay", "practitionersByDay", "rosterDatesByDay">>

RestoreAt(keys) ==
  running # <<>> /\ running[1].op = "restoreSnapshot" /\ running[1].pc \in keys

\* the setters of `keys` called one after the other until one awaits the remote store,
\* one throws, or all have returned:
\*   set<X>ForDay(day, undefined) of a list throws on theatresArray.length;
\*   with Firebase available the setter awaits the remote write;
\*   otherwise it writes the cache and returns
RECURSIVE RestoreRun(_, _, _, _, _)
RestoreRun(keys, ls, data, changed, written) ==
  IF keys = <<>>
  THEN [st |-> "resolved", pc |-> "-", rest |-> keys, ls |-> ls, changed |-> changed,
        written |-> written]
  ELSE LET key == Head(keys)
           value == SnapshotField(data, key)
           cache == SetStartCache(ls, key, SnapshotDay, value, FALSE)
       IN IF key \in CollectionKeys /\ IsUndefined(data, key)
          THEN [st |-> "rejected", pc |-> "-", rest |-> keys, ls |-> ls, changed |-> changed,
                written |-> written]
          ELSE IF isFirebaseAvailable
          THEN [st |-> "pending", pc |-> key, rest |-> Tail(keys), ls |-> ls,
                changed |-> changed, written |-> written]
          ELSE RestoreRun(Tail(keys), cache, data,
                          IF cache # ls THEN changed \cup {key} ELSE changed,
                          written \cup {key})

\* the outcome of a run of setters: the call goes on waiting, or it settles
RestoreOutcome(r, ts, error) ==
  /\ localStorage' = r.ls
  /\ IF r.st = "pending"
     THEN /\ running' = <<Restore(r.pc, ts, r.rest, r.changed, r.written)>>
          /\ last' = last
     ELSE /\ running' = <<>>
          /\ last' = [op |-> "restoreSnapshot", st |-> r.st, ts |-> ts, error |-> error,
                      changed |-> r.changed, written |-> r.written]

restoreFrame == <<hook, USE_FIREBASE, saved, mode, isConnected, polls, connVars, dbSettings,
                  dbLunch, dbFlat, dbSnapshots, calls, started, target, clock, subVars,
                  externals, offlineWrites>>

\* restoreSnapshot(dayOfWeek, snapshotTimestamp): the get of getSnapshot is sent
restoreSnapshot(ts) ==
  /\ running = <<>>
  /\ running' = <<Restore("get", ts, RestoreOrder, {}, {})>>
  /\ UNCHANGED <<restoreFrame, database, localStorage, events, last>>

\* getSnapshot settles: null when the get rejects or the snapshot does not exist, and
\* restoreSnapshot throws 'Snapshot not found'; otherwise the setters are called
RestoreGet(ok) ==
  /\ RestoreAt({"get"})
  /\ ok => isConnected
  /\ LET c == running[1]
         nothing == [st |-> "rejected", pc |-> "-", rest |-> c.rest, ls |-> localStorage,
                     changed |-> {}, written |-> {}]
     IN IF ~ok \/ c.ts \notin DOMAIN dbSnapshots
        THEN RestoreOutcome(nothing, c.ts, "Snapshot not found")
        ELSE RestoreOutcome(RestoreRun(c.rest, localStorage, dbSnapshots[c.ts], {}, {}),
                            c.ts, "TypeError")
  /\ UNCHANGED <<restoreFrame, database, events>>

\* the remote store applies the write of the setter that is waiting; the setter mirrors
\* the value into the cache and returns, and the setters that follow are called
RestoreSetAck ==
  /\ RestoreAt(ByDayKeys)
  /\ isConnected
  /\ LET c == running[1]
         value == SnapshotField(dbSnapshots[c.ts], c.pc)
         cache == Mirror(localStorage, c.pc, SnapshotDay, value)
         changed == IF database' # database \/ cache # localStorage
                    THEN c.changed \cup {c.pc} ELSE c.changed
     IN /\ database' = [database EXCEPT ![c.pc][SnapshotDay] = RemoteValue(c.pc, value, clock)]
        /\ RestoreOutcome(RestoreRun(c.rest, cache, dbSnapshots[c.ts], changed,
                                     c.written \cup {c.pc}),
                          c.ts, "TypeError")
        /\ events' = Notify(c.pc, SnapshotDay)
  /\ UNCHANGED restoreFrame

\* the remote write rejects: the setter leaves the cache alone and rethrows, and so
\* does restoreSnapshot
RestoreSetFail ==
  /\ RestoreAt(ByDayKeys)
  /\ LET c == running[1]
     IN /\ running' = <<>>
        /\ last' = [op |-> "restoreSnapshot", st |-> SetFailOutcome, ts |-> c.ts,
                    error |-> "remote", changed |-> c.changed, written |-> c.written]
  /\ localStorage' = SetFailCache(localStorage, running[1].pc, SnapshotDay, None)
  /\ UNCHANGED <<restoreFrame, database, events>>

NextRestore ==
  \/ \E b \in BOOLEAN : ConnectionPush(b)
  \/ ModeCheck
  \/ \E value \in SetterInputs(target) : SetForDayStart(target, SnapshotDay, value)
  \/ \E i \in 1..MaxCalls : SetForDayAck(i)
  \/ \E i \in 1..MaxCalls : SetForDayFail(i)
  \/ \E value \in SetterInputs(target) : ExternalWrite(target, SnapshotDay, value)
  \/ \E now \in HoursNow : now < MaxRestoreHour /\ TakeSnapshot(now)
  \/ CleanupGet
  \/ \E ts \in 1..MaxRestoreHour : restoreSnapshot(ts)
  \/ \E ok \in BOOLEAN : RestoreGet(ok)
  \/ RestoreSetAck
  \/ RestoreSetFail

InitRestore ==
  /\ InitBase
  /\ hook = Unmounted
  /\ target = "theatresByDay"

SpecRestore == InitRestore /\ [][NextRestore]_vars

(* ------------------------------- properties ---------------------------- *)
\* a facade call settled in this step; it is last'
SettledNow == started' - Len(calls') > started - Len(calls)

\* the callback of subscription s is invoked in this step
DeliveredNow(s) == s \in events /\ s \notin events' /\ s \in attached'

HasDay(ls, key, day) == ls[key] # None /\ day \in DOMAIN ls[key][1]

\* C1: a per-day write whose Remote Store write fails rejects, and the step that
\* rejects it leaves the whole Local Cache as it was (so a list cached by an earlier
\* successful write is still there).
C1_FailedWriteKeepsCache ==
  [][(SettledNow /\ last'.op = "set" /\ last'.key \in ByDayKeys /\ last'.rem = "failed")
       => (last'.st = "rejected" /\ localStorage' = localStorage)]_vars

C1_Witness ==
  /\ last.op = "set" /\ last.key \in CollectionKeys /\ last.st = "rejected"
  /\ Len(LocalForDay(localStorage, last.key, last.day)) = 2
  /\ LocalForDay(localStorage, last.key, last.day) # last.arg[1]

\* C2: the Local Cache entry of a per-day key changes only in a step in which a call
\* on that key settles successfully: a write that was acknowledged by the Remote Store
\* (or took the offline path), or a fetch that succeeded. It never changes when a
\* write starts on the remote path, while it waits, or when it fails.
C2_CacheOnlyAfterAck ==
  [][\A key \in ByDayKeys :
       localStorage'[key] # localStorage[key]
         => /\ SettledNow
            /\ last'.key = key
            /\ last'.st = "resolved"
            /\ (last'.op = "set" => last'.rem \in {"ok", "none"})
            /\ (last'.op = "get" => last'.rem = "ok")]_vars

C2_Witness ==
  /\ last.op = "set" /\ last.key \in CollectionKeys /\ last.rem = "ok"
  /\ Len(last.arg[1]) > 0
  /\ LocalForDay(localStorage, last.key, last.day) = last.arg[1]

\* C3 (as claimed): with remote sync enabled, a per-day call takes the Local-Cache-only
\* path exactly when the connection monitor reported Unreachable at the call.
C3_ReachableMeansRemote ==
  (USE_FIREBASE /\ last.key \in ByDayKeys) => (last.rem = "none" <=> ~last.conn)

C7_DeliveryIsMirrored ==
  [][\A s \in 1..Len(subs) :
       (DeliveredNow(s) /\ subs[s].root \in CollectionKeys)
         => LocalForDay(localStorage', subs[s].root, subs[s].day) = Delivered(s)]_vars

\* C8: with remote sync enabled, every per-day subscribe attaches a listener to the
\* Remote Store, whatever the connectivity and the mode (no per-day subscription is
\* ever the no-op one), and its initial value is queued for delivery.
C8_SubscribeAlwaysAttaches ==
  /\ [](\A s \in 1..Len(subs) :
          (USE_FIREBASE /\ subs[s].root \in CollectionKeys) => subs[s].svc = "firebase")
  /\ [][(Len(subs') > Len(subs) /\ USE_FIREBASE /\ subs'[Len(subs')].root \in CollectionKeys)
          => (Len(subs') \in attached' /\ Len(subs') \in events')]_vars

\* a subscription made while Unreachable, in mode localStorage, has received a value
C8_Witness ==
  \E s \in 1..Len(subs) :
    /\ subs[s].root \in CollectionKeys /\ ~subs[s].conn /\ subs[s].delivered
    /\ subs[s].unsubs = 0

\* C9: every unsubscribe function is idempotent: in every reachable state, applying
\* it twice leaves the listener registries and the attached remote listeners as
\* applying it once does.
C9_UnsubscribeIdempotent ==
  \A s \in 1..Len(subs) :
    UnsubscribeFn(s, UnsubscribeFn(s, Registry)) = UnsubscribeFn(s, Registry)

\* an unsubscribe function was called twice while another listener was on its path
C9_Witness ==
  \E s \in 1..Len(subs) :
    /\ subs[s].unsubs = 2 /\ subs[s].svc = "firebase"
    /\ \E t \in 1..Len(subs) : t > s /\ subs[t].root = subs[s].root /\ subs[t].day = subs[s].day

\* C10 (as claimed): once its unsubscribe function has been called, the callback of a
\* subscription is never invoked again.
C10_NoDeliveryAfterUnsubscribe ==
  [][\A s \in 1..Len(subs) : DeliveredNow(s) => subs[s].unsubs = 0]_vars

\* C11: a connectivity push invokes the registered connection callbacks if and only
\* if the status was Unreachable and becomes Reachable; then every registered
\* callback is invoked exactly once (also after one that throws) and no other; a push
\* of true while Reachable and every push of false invoke none.
C11_NotifyOnlyOnReconnect ==
  [][\A c \in Callbacks :
       cbCalls'[c] - cbCalls[c]
         = IF ~isConnected /\ isConnected' /\ c \in Registered(connectionCallbacks)
           THEN 1 ELSE 0]_vars

\* two reconnections with a throwing callback registered before another one
C11_Witness ==
  /\ isConnected
  /\ Len(connectionCallbacks) >= 2
  /\ Head(connectionCallbacks) \in ThrowingCallbacks
  /\ greeted = {}
  /\ \A c \in Registered(connectionCallbacks) : cbCalls[c] = 2

\* C12: the mode changes only in a firing of the periodic check; a firing turns mode
\* firebase with the monitor Unreachable into localStorage, mode localStorage with the
\* monitor Reachable into firebase, and leaves the mode alone otherwise, so after a
\* firing the mode agrees with the connectivity, and it keeps agreeing for as long as
\* the connectivity does not change.
C12_ModeFollowsPoll ==
  [][/\ (mode' # mode => polls' # polls)
     /\ (polls' # polls
           => /\ USE_FIREBASE
              /\ isConnected' = isConnected
              /\ (mode = "firebase" /\ ~isConnected => mode' = "localStorage")
              /\ (mode = "localStorage" /\ isConnected => mode' = "firebase")
              /\ (mode = "firebase" /\ isConnected => mode' = mode)
              /\ (mode = "localStorage" /\ ~isConnected => mode' = mode)
              /\ (mode' = "firebase" <=> isConnected'))
     /\ (((mode = "firebase" <=> isConnected) /\ isConnected' = isConnected)
           => (mode' = "firebase" <=> isConnected'))]_vars

\* the check fired twice, once leaving the mode alone, before the monitor turned Reachable
C12_Witness ==
  USE_FIREBASE /\ mode = "localStorage" /\ isConnected /\ polls = 0

\* C13: the initial mode is firebase iff the configuration flag enables remote sync,
\* and with the flag off the mode is localStorage in every reachable state.
C13_ModeWhenDisabled ==
  /\ (mode = "firebase" <=> USE_FIREBASE)
  /\ [](~USE_FIREBASE => mode = "localStorage")

\* with the flag off, a write made while the monitor reports Reachable stayed local
C13_Witness ==
  ~USE_FIREBASE /\ isConnected /\ last.op = "set" /\ last.rem = "none"

\* C14 (as claimed): as long as the user has not edited, a state container makes no
\* facade write, whatever loads and pushes arrive and however React schedules renders
\* and effects.
C14_NoWriteWithoutEdit == ~hook.edited => hook.written = NoWrite

\* C15: what a per-day state container writes under a day's key was loaded for that
\* day or edited on it (or is the untouched initial value): after a switch from day A
\* to day B nothing loaded for or edited on A is written under B.
C15_DaySwitchSafety ==
  (hook.kind \in DayHooks /\ hook.written # NoWrite)
    => hook.written.value.day \in {hook.written.day, "-"}

\* C16 (as claimed): previousDayRef equals the active day after the first run of the
\* save effect that follows a change of the selected day (that run belongs to the step
\* that selects the day), also when the self-update flag is set during that run.
C16_DayRefAfterFirstRun ==
  [][(hook.kind \in DayHooks /\ hook'.selectedDay # hook.selectedDay)
       => hook'.previousDayRef = hook'.selectedDay]_vars

\* a record of a returned collection that equals r but for lastUpdated
ContainsRecord(list, r) == \E i \in 1..Len(list) : Strip(list[i]) = Strip(r)

C18_DayIsolation ==
  [][\A key \in ByDayKeys : \A d2 \in Days :
       (\/ SettledNow /\ last'.op = "set" /\ last'.key = key /\ last'.day = d2
        \/ /\ Len(calls') > Len(calls)
           /\ calls'[Len(calls')].op = "set"
           /\ calls'[Len(calls')].key = key /\ calls'[Len(calls')].day = d2)
         => \A d1 \in Days \ {d2} :
              /\ database'[key][d1] = database[key][d1]
              /\ HasDay(localStorage', key, d1) = HasDay(localStorage, key, d1)
              /\ LocalForDay(localStorage', key, d1) = LocalForDay(localStorage, key, d1)]_vars

\* two writes of this client to different days of a collection were acknowledged, and
\* the day written first is still held by the remote store and by the cache
C18_Witness ==
  /\ last.op = "set" /\ last.rem = "ok" /\ last.key \in CollectionKeys
  /\ started = 2 /\ calls = <<>> /\ externals = 0
  /\ Len(last.arg[1]) > 0
  /\ LocalForDay(localStorage, last.key, last.day) = last.arg[1]
  /\ \E d1 \in Days \ {last.day} :
       /\ HasDay(localStorage, last.key, d1)
       /\ Len(LocalForDay(localStorage, last.key, d1)) > 0
       /\ LocalForDay(localStorage, last.key, d1) # last.arg[1]
       /\ firebaseObjectToArray(database[last.key][d1]) # <<>>

\* C19 (as claimed): when a write to a (key, day) path completes successfully after a
\* write to the same path that was issued later has completed successfully, the Local
\* Cache entry of the path holds the value of the write issued later.
C19_WritesInOrder ==
  [][(/\ SettledNow /\ last'.op = "set" /\ last'.st = "resolved" /\ last'.key \in ByDayKeys
      /\ last.op = "set" /\ last.st = "resolved"
      /\ last.key = last'.key /\ last.day = last'.day
      /\ last.n > last'.n)
       => LocalForDay(localStorage', last'.key, last'.day) = last.arg[1]]_vars

C21_MigratorNoOp ==
  [][(\/ \A k \in LegacyKeys : localStorage[k] = None
      \/ \E k \in CollectionKeys : localStorage[k] # None)
       => localStorage' = localStorage]_vars

C23_ImportServed ==
  [][(/\ SettledNow /\ last'.op = "get" /\ last'.st = "resolved"
      /\ last'.key \in CollectionKeys
      /\ last.op = "import" /\ last.st = "resolved" /\ last.n < last'.n
      /\ IsLegacyShape(last.arg[1]) /\ ~IsDayShape(last.arg[1]))
       => last'.ret[1] = IF last'.day # last.day THEN <<>>
                         ELSE IF last'.key = "theatresByDay" THEN last.arg[1].theatres[1]
                         ELSE last.arg[1].practitionerList[1]]_vars

\* C24 (as claimed): a step in which an import of a document with neither the full
\* day-partitioned shape nor the full legacy shape starts or completes leaves the
\* Local Cache and the Remote Store as they were.
C24_BadImportWritesNothing ==
  [][(\/ /\ SettledNow /\ last'.op = "import"
         /\ ~IsDayShape(last'.arg[1]) /\ ~IsLegacyShape(last'.arg[1])
      \/ /\ Len(calls') > Len(calls) /\ calls'[Len(calls')].op = "import"
         /\ ~IsDayShape(calls'[Len(calls')].arg[1])
         /\ ~IsLegacyShape(calls'[Len(calls')].arg[1]))
       => localStorage' = localStorage /\ remoteVars' = remoteVars]_vars

\* C25 (as claimed): a write operation of the facade whose Remote Store write failed
\* rejects to its caller.
C25_RemoteFailureRejects ==
  [][(SettledNow /\ last'.op \in {"set", "import"} /\ last'.rem = "failed")
       => last'.st = "rejected"]_vars

\* C26 (as claimed): when a read completes that was started for a day which is no
\* longer the active day (the load of an effect run that was cleaned up, or the read
\* of a connection callback made for another day), nothing of the container changes:
\* not its state, not the updates queued for it, not its refs.
C26_StaleCompletionGuard ==
  [][/\ \A l \in hook.loads \ hook'.loads :
          ~l.live => hook' = [hook EXCEPT !.loads = hook'.loads]
     /\ \A d \in hook.reloads \ hook'.reloads :
          (d # hook.selectedDay /\ d # hook.pDay)
            => hook' = [hook EXCEPT !.reloads = hook'.reloads]]_vars

\* C27 (as claimed): with remote sync enabled, the read that a connection callback
\* starts when the monitor goes from Unreachable to Reachable takes the remote path:
\* it waits for the Remote Store instead of being answered from the Local Cache.
C27_ReloadReadsRemote ==
  [][(USE_FIREBASE /\ ~isConnected /\ isConnected' /\ started' > started)
       => (Len(calls') > Len(calls) /\ calls'[Len(calls')].rem = "pending")]_vars

\* C28 (as claimed): the theatre list that the hook holds has pairwise distinct order
\* values, also after a load, a subscription delivery or an upload gave records
\* without an order their array index.
C28_OrderUnique ==
  hook.kind = "useTheatreData" =>
    \A i, j \in 1..Len(hook.theatres) :
      i # j => hook.theatres[i].order # hook.theatres[j].order

\* C29: neither adapter operation throws; a load returns its default when nothing
\* was saved under the key, when the content is not JSON or when the store fails, and
\* otherwise what the value last saved deserializes to; a save that fails leaves the
\* content of the store as it was.
C29_CacheNeverThrows ==
  /\ [](last.op \in {"save", "load"} => ~last.threw)
  /\ [](last.op = "load" =>
          last.v = IF last.failed \/ saved[last.key] \in {"-", "foreign"} THEN last.arg
                   ELSE JSON_parse(JSON_stringify(saved[last.key]).v).v)
  /\ [][(last'.op = "save" /\ last'.failed) => localStorage' = localStorage]_vars

\* a load has returned what the NaN saved before it deserializes to, not its default
C29_Witness ==
  /\ last.op = "load" /\ ~last.failed
  /\ saved[last.key] = JsNaN
  /\ last.v = JsNull /\ last.arg # JsNull

\* C30: every entry of the object made by arrayToFirebaseObject carries lastUpdated;
\* no record of the list made by firebaseObjectToArray does; and for a list of records
\* with pairwise distinct, non-empty names, converting it to an object and back gives
\* a list with exactly its records, each with the fields and values it had.
C30_ConversionRoundTrip ==
  /\ last.op = "arrayToFirebaseObject" =>
       \A k \in DOMAIN last.ret : "lastUpdated" \in DOMAIN last.ret[k]
  /\ last.op = "firebaseObjectToArray" =>
       /\ \A i \in 1..Len(last.ret) : "lastUpdated" \notin DOMAIN last.ret[i]
       /\ (\A i, j \in 1..Len(last.from) :
             /\ last.from[i].name # ""
             /\ i # j => last.from[i].name # last.from[j].name)
            => /\ Len(last.ret) = Len(last.from)
               /\ {last.ret[i] : i \in 1..Len(last.ret)}
                    = {last.from[i] : i \in 1..Len(last.from)}

\* a list of two records with distinct names has gone through both conversions and
\* has come back in the key order of the object
C30_Witness ==
  /\ last.op = "firebaseObjectToArray"
  /\ last.from = <<[name |-> "B", v |-> 2], [name |-> "A", v |-> 1]>>
  /\ last.ret = <<[name |-> "A", v |-> 1], [name |-> "B", v |-> 2]>>
  /\ DOMAIN last.arg = {"A", "B"}

\* C31 (as claimed): when a cleanup whose removes all succeeded has completed, the day
\* has at most MAX_SNAPSHOTS_PER_DAY snapshots, they are the newest of those the
\* cleanup read, and a cleanup that read no more than MAX_SNAPSHOTS_PER_DAY has
\* deleted nothing.
C31_SnapshotRetention ==
  [][(running # <<>> /\ running[1].op = "cleanup" /\ running' = <<>> /\ ~last'.failed)
       => /\ Cardinality(DOMAIN dbSnapshots') <= MAX_SNAPSHOTS_PER_DAY
          /\ last'.read > MAX_SNAPSHOTS_PER_DAY => DOMAIN dbSnapshots' = last'.kept
          /\ last'.read <= MAX_SNAPSHOTS_PER_DAY => dbSnapshots' = dbSnapshots]_vars

\* C32 (as claimed): a call of the unsubscribe function of one subscription leaves
\* every other subscription that is attached, also one to the same remote path,
\* attached.
C32_IndependentSubscriptions ==
  [][\A s, t \in 1..Len(subs) :
       (s # t /\ subs'[s].unsubs > subs[s].unsubs /\ t \in attached) => t \in attached']_vars

\* C33 (as claimed): the first edit that the user makes once loading has completed
\* (no read in flight, isLoading false, no effect or render outstanding) and that sets
\* a value other than null is written through the facade with that value, in the
\* effects of the render that the edit causes.
C33_NoLostLocalEdit ==
  [][(/\ hook.kind \in HookKinds
      /\ ~hook.edited /\ hook'.edited
      /\ hook.loads = {} /\ hook.reloads = {}
      /\ ~hook.isLoading /\ ~RenderNeeded(hook) /\ ~hook.e1 /\ ~hook.e2
      /\ hook'.value.data # "null")
       => hook'.written = [day |-> hook'.selectedDay, value |-> hook'.value]]_vars

\* C34 (as claimed): no listener that a cleaned-up run of the load effect of
\* useTheatreData attached is attached: it is detached by the cleanup, and a run whose
\* initial read settles after its cleanup leaves none behind.
C34_NoListenerLeak ==
  hook.kind = "useTheatreData/listeners" =>
    \A i \in 1..Len(hook.runs) :
      (~hook.runs[i].mounted /\ hook.runs[i].sub # 0) => hook.runs[i].sub \notin attached

\* C35 (as claimed): with remote sync disabled by the configuration flag no facade
\* call waits for the Remote Store and no listener that the facade subscribed is
\* attached to a remote path.
C35_DisabledMeansNoRemote ==
  ~USE_FIREBASE =>
    /\ calls = <<>>
    /\ \A s \in attached : subs[s].svc # "firebase"

C37_OnePendingPerTheatre ==
  \A t \in LunchTheatres :
    Cardinality({i \in DOMAIN dbLunch :
                   dbLunch[i].theatreName = t /\ dbLunch[i].status = "pending"}) <= 1

\* C38: with remote sync enabled, a restoreSnapshot that has settled either rejected without having changed any
\* of theatres, practitioners and roster date of the day (for a missing snapshot with
\* 'Snapshot not found' and without any storage write), or resolved after the setters
\* of all three have completed.
C38_RestoreAllOrNothing ==
  (USE_FIREBASE /\ last.op = "restoreSnapshot") =>
    /\ last.st = "rejected" => last.changed = {}
    /\ last.error = "Snapshot not found" => (last.st = "rejected" /\ last.written = {})
    /\ last.st = "resolved" => last.written = ByDayKeys

\* C39: isFirebaseAvailable() holds only while the monitor reports Reachable and the
\* mode is Remote; a facade call that starts a Remote Store call is made in a state where the
\* monitor reports Reachable and the mode is Remote; a call made while the monitor
\* reports Unreachable, as it does from the start until the first push of true, starts
\* no Remote Store call: it settles at once from the Local Cache and leaves the Remote
\* Store as it is.
C39_AvailableMeansReachableRemote ==
  /\ [](isFirebaseAvailable => (isConnected /\ mode = "firebase"))
  /\ [][(started' = started + 1 /\ Len(calls') = Len(calls) + 1)
          => (isConnected /\ mode = "firebase")]_vars
  /\ [][(started' = started + 1 /\ ~isConnected)
          => /\ calls' = calls
             /\ last'.rem = "none" /\ last'.st = "resolved"
             /\ database' = database /\ dbSettings' = dbSettings]_vars

\* sync is enabled and the mode is still Remote, the monitor has not reported Reachable:
\* the first call, a read of a day, was answered from the cache without a remote call
C39_Witness ==
  /\ USE_FIREBASE /\ mode = "firebase" /\ ~isConnected
  /\ started = 1 /\ calls = <<>>
  /\ last.op = "get" /\ last.key \in ByDayKeys /\ ~last.conn
  /\ last.rem = "none" /\ last.st = "resolved"
  /\ last.ret = Some(LocalForDay(localStorage, last.key, last.day))

====
